---- MODULE Spec2Model ----
(***************************************************************************)
(* Model of the media-organizer pipeline: scan, hash, plan, execute, and   *)
(* the persisted run / file / hash-group / plan-item / error state.        *)
(* One run, one source tree, one destination tree.                         *)
(***************************************************************************)
EXTENDS Integers, Sequences, FiniteSets, TLC

(* ------------------------------ bounds --------------------------------- *)
MaxFiles == 2
MaxFaults == 2
MaxRetries == 2
MaxRuns == 2
MaxWindows == 2
MaxWalk == 3
BatchSize == 2

(* -------------------------- program constants -------------------------- *)
NULL == 0
DefaultRetries == 2
RunId == "run1"
PHOTO_EXTS == {".jpg", ".jpeg", ".png", ".heic", ".heif", ".bmp", ".tif", ".tiff", ".gif", ".webp"}
RAW_EXTS == {".cr2", ".cr3", ".nef", ".nrw", ".arw", ".raf", ".rw2", ".orf", ".pef", ".rwl", ".x3f", ".dng"}
VIDEO_EXTS == {".mp4", ".mov", ".m4v", ".avi", ".wmv", ".webm", ".mkv", ".3gp", ".mts", ".m2ts",
               ".mpg", ".mpeg", ".vob", ".ts", ".flv"}
EXCLUDED_EXTS == {".xmp", ".aae", ".db", ".sqlite", ".xml", ".json", ".exe", ".msi", ".zip", ".rar", ".7z"}
IncompleteStatuses == {"CREATED", "SCANNED", "PLANNED", "RUNNING", "PAUSED", "FAILED"}
PendingStatuses == {"PENDING", "COPYING", "FAILED"}

(* --------------------------- the environment --------------------------- *)
\* File contents are small integers; 0 is a truncated or garbled file.
Contents == {1, 2}
BadContent == 0
\* A file name is base + " (n)" + ext, n = 0 meaning no suffix.
FileNames == {[base |-> "a", n |-> 0, ext |-> ".jpg"], [base |-> "b", n |-> 0, ext |-> ".jpg"]}
\* Dates are <<year, month, day>>.
Dates == {<<2024, 1, 15>>}
Outcomes == {"ok", "corrupt", "io_open", "io_write"}
\* The modification date of a source file that was rewritten after the run was created.
TouchedDate == <<2024, 2, 20>>
\* Clock readings of now_iso(); a pipeline that scans the tree once reads ScanTime.
Times == {1, 2}
ScanTime == 1
Policies == {"RETRY_THEN_SKIP", "SKIP"}

VARIABLES
  srcFiles,      \* the source tree: sequence (walk order) of [name, content, mdate]
  disk,          \* the destination tree: function path -> content
  files,         \* table files: sequence indexed by file_id
  hash_groups,   \* table hash_groups: sequence of rows kept in sha256 order (group_id is a
                 \* surrogate key that nothing orders by, so a group is named by its
                 \* fingerprint and the rows are listed by it)
  plan_items,    \* table plan_items of the run, in plan_item_id order
  errors,        \* table errors (append-only sequence)
  run_status,    \* runs.status
  mode,          \* which front end runs the current process: "NONE", "CLI", "GUI"
  dry_run,       \* the pipeline stops after Plan
  stop,          \* Worker._stop
  pc,            \* position of the running process
  hashTodo,      \* hash_all: rows whose result was not consumed yet
  tasks,         \* hash_all: the futures, row -> state of its task (only in SpecHash)
  items,         \* execute: the selection passed in
  idx,           \* execute: index of the current item in items
  attempt,       \* execute: attempt counter of the current item
  retries,       \* execute: parameter retries
  error_policy,  \* execute: parameter error_policy
  lastOutcome,   \* environment: how the latest copy_stream call turned out
  fresh,         \* no process was started on the run yet
  faults,        \* number of environment faults so far (failed hash, item whose copy
                 \* goes wrong, stop request, kill)
  everVerified,  \* history: <<file_id, dest_path>> of every mark_verified
  runs,          \* table runs, in the order the runs were created (only in SpecResume, SpecWindow)
  resumed,       \* the latest result of RunRepo.latest_incomplete
  window,        \* the MainWindow and its workers (only in SpecWindow)
  scanning,      \* ScanService.scan: parameters and locals of the call (only in SpecScan)
  store          \* the tables of a store that holds several runs (only in SpecRuns, SpecPurge)

\* The variables that the pipeline of one run on one process leaves alone.
auxVars == <<runs, resumed, window, scanning, store>>

\* The variables of the pipeline of one run.
runVars == <<srcFiles, disk, files, hash_groups, plan_items, errors, run_status, mode, dry_run,
             stop, pc, hashTodo, tasks, items, idx, attempt, retries, error_policy, lastOutcome,
             fresh, faults, everVerified>>

vars == <<srcFiles, disk, files, hash_groups, plan_items, errors, run_status, mode, dry_run,
          stop, pc, hashTodo, tasks, items, idx, attempt, retries, error_policy, lastOutcome, fresh, faults,
          everVerified, auxVars>>

(* ------------------------------ helpers -------------------------------- *)
Range(s) == {s[i] : i \in DOMAIN s}

Min(S) == CHOOSE x \in S : \A y \in S : x <= y

\* organizer_io/hash_stream.py: the content fingerprint of a file's bytes.
sha256_file(content) == 100 + content

Exists(path) == path \in DOMAIN disk

WriteFile(d, path, content) ==
  [q \in (DOMAIN d) \cup {path} |-> IF q = path THEN content ELSE d[q]]

\* domain/rules.py classify_media
classify_media(ext) ==
  IF ext \in RAW_EXTS THEN "RAW"
  ELSE IF ext \in VIDEO_EXTS THEN "VIDEO"
  ELSE IF ext \in PHOTO_EXTS THEN "PHOTO"
  ELSE "OTHER"

\* domain/rules.py dest_rel_path, the OTHER branch: extension without its dot, uppercased.
ext_tag(ext) ==
  CASE ext = "" -> "NOEXT"
    [] ext = ".txt" -> "TXT"
    [] ext = ".pdf" -> "PDF"
    [] ext = ".jpg" -> "JPG"
    [] OTHER -> "EXT"

\* domain/rules.py dest_rel_path: the path is the sequence of its segments.
dest_rel_path(media_type, date, filename) ==
  IF media_type = "PHOTO" THEN <<"Photos", date[1], date, filename>>
  ELSE IF media_type = "VIDEO" THEN <<"Videos", date[1], date, filename>>
  ELSE IF media_type = "RAW" THEN <<"RAW", date[1], date, filename>>
  ELSE <<"OtherByExt", ext_tag(filename.ext), filename>>

\* Variant of duplicates_rel_path: the duplicates of all runs share one folder.
duplicates_rel_path_flat(run_id, filename) == <<"Duplicates", filename>>

\* domain/rules.py duplicates_rel_path
duplicates_rel_path(run_id, filename) == <<"Duplicates", run_id, filename>>

dirname(path) == SubSeq(path, 1, Len(path) - 1)
basename(path) == path[Len(path)]

\* domain/rules.py resolve_collision: probe the disk until the name is free.
RECURSIVE Probe(_, _, _)
Probe(folder, filename, n) ==
  LET candidate == [filename EXCEPT !.n = n]
  IN IF Exists(Append(folder, candidate))
       THEN Probe(folder, filename, n + 1)
       ELSE <<candidate, n>>

resolve_collision(folder, filename) == Probe(folder, filename, 0)

(* --------------------------- store operations -------------------------- *)
FileIds == DOMAIN files

\* Variant of upsert_files: every row is written anew (INSERT OR REPLACE).
upsert_files_replace(now) ==
  [i \in DOMAIN srcFiles |->
     [filename    |-> srcFiles[i].name,
      media_type  |-> classify_media(srcFiles[i].name.ext),
      chosen_date |-> srcFiles[i].mdate,
      sha256      |-> NULL,
      created_at  |-> now]]

\* FileRepo.upsert_files over the walked source tree (now is the scan's now_iso()): file
\* ids follow walk order; a row that exists keeps its file_id, sha256 and created_at, the
\* descriptive fields are overwritten.
upsert_files(now) ==
  [i \in DOMAIN srcFiles |->
     [filename    |-> srcFiles[i].name,
      media_type  |-> classify_media(srcFiles[i].name.ext),
      chosen_date |-> srcFiles[i].mdate,
      sha256      |-> IF i \in DOMAIN files THEN files[i].sha256 ELSE NULL,
      created_at  |-> IF i \in DOMAIN files THEN files[i].created_at ELSE now]]

\* Variant of list_files_for_hashing: every row of the run is selected.
list_files_for_hashing_all(fs) == DOMAIN fs

\* FileRepo.list_files_for_hashing
list_files_for_hashing(fs) == {i \in DOMAIN fs : fs[i].sha256 = NULL}

\* FileRepo.set_sha256
set_sha256(file_id, h) == [files EXCEPT ![file_id].sha256 = h]

\* HashGroupRepo.upsert_group
\* INSERT INTO hash_groups: the new row takes its place in sha256 order.
insert_group(groups, h) ==
  LET below == Cardinality({g \in DOMAIN groups : groups[g].sha256 <= h})
  IN SubSeq(groups, 1, below) \o <<[sha256 |-> h, primary_file_id |-> NULL]>>
       \o SubSeq(groups, below + 1, Len(groups))

\* Variant of upsert_group: the row is inserted without looking for an existing one.
upsert_group_always(h) == insert_group(hash_groups, h)

\* HashGroupRepo.upsert_group: SELECT the group of the fingerprint, INSERT when there is none.
upsert_group(h) ==
  IF \E g \in DOMAIN hash_groups : hash_groups[g].sha256 = h
    THEN hash_groups
    ELSE insert_group(hash_groups, h)

\* PlannerService.build_plan, LEFT JOIN hash_groups ON sha256: the group of a fingerprint.
GroupIdOf(groups, h) ==
  IF \E g \in DOMAIN groups : groups[g].sha256 = h THEN h ELSE NULL

\* PlannerService.build_plan, LEFT JOIN hash_groups ON sha256: hg.primary_file_id.
PrimaryOf(groups, h) ==
  groups[CHOOSE g \in DOMAIN groups : groups[g].sha256 = h].primary_file_id

\* Variant of error_add: the record takes the place of the earlier records of its file.
error_add_replace(errs, phase, code, file_id) ==
  Append(SelectSeq(errs, LAMBDA e : e.file_id # file_id),
         [phase |-> phase, code |-> code, file_id |-> file_id])

\* ErrorRepo.add
error_add(errs, phase, code, file_id) ==
  Append(errs, [phase |-> phase, code |-> code, file_id |-> file_id])

\* FileRepo.counts: COUNT(*) AS total of the files of the run.
counts_total(fs) == Len(fs)

\* SUM(cnt - 1) over the groups of GROUP BY sha256 that have cnt > 1, the rows being the
\* file_ids in rows.
FilesWith(fs, rows, h) == {i \in rows : fs[i].sha256 = h}
SumOfExtras(fs, rows) ==
  LET extras == {i \in rows : i # Min(FilesWith(fs, rows, fs[i].sha256))}
  IN Cardinality(extras)

\* Variant of duplicate_counts: the rows without sha256 are grouped as well.
duplicate_counts_withNull(fs) == SumOfExtras(fs, DOMAIN fs)

\* HashGroupRepo.duplicate_counts: WHERE run_id=? AND sha256 IS NOT NULL.
duplicate_counts(fs) == SumOfExtras(fs, {i \in DOMAIN fs : fs[i].sha256 # NULL})

\* PlannerService.build_plan lines 41 and 64-65: collisions, the number of items that
\* resolve_collision gave a suffix.
collisions(plan) == Cardinality({i \in DOMAIN plan : plan[i].collision_suffix # 0})

\* Variant of hash_error: the failure of a task is swallowed.
hash_error_silent(f) == errors

\* hash_all's except clause: error_repo.add(run_id, "HASH", ..., source_path=...).
hash_error(f) == error_add(errors, "HASH", "NONE", f)

\* Variant of SelectedStatuses: an item left COPYING by a killed process is not selected.
SelectedStatuses_noCopying == {"PENDING", "FAILED"}

\* PlanRepo.list_pending_for_execution: the rows joined with files, in plan_item_id order.
SelectedStatuses == PendingStatuses

RECURSIVE SelectRows(_, _)
SelectRows(plan, i) ==
  IF i > Len(plan) THEN <<>>
  ELSE LET rest == SelectRows(plan, i + 1)
           row  == [plan_item_id  |-> i,
                    file_id       |-> plan[i].file_id,
                    dest_path     |-> plan[i].dest_path,
                    status        |-> plan[i].status,
                    source_sha256 |-> files[plan[i].file_id].sha256]
       IN IF plan[i].status \in SelectedStatuses THEN <<row>> \o rest ELSE rest

list_pending_for_execution == SelectRows(plan_items, 1)

\* Variant of mark_copying: the row is left as it is.
mark_copying_none(plan, id) == plan

\* PlanRepo.mark_copying / mark_verified / mark_failed
mark_copying(plan, id) == [plan EXCEPT ![id].status = "COPYING"]
mark_verified(plan, id) == [plan EXCEPT ![id].status = "VERIFIED", ![id].error_code = "NONE"]
mark_failed(plan, id, code) == [plan EXCEPT ![id].status = "FAILED", ![id].error_code = code]

(* ------------------------------- planner ------------------------------- *)
\* Variant of SetPrimaries: the largest file_id of the fingerprint becomes the primary.
SetPrimaries_max(groups) ==
  [g \in DOMAIN groups |->
     LET members == {i \in FileIds : files[i].sha256 = groups[g].sha256}
     IN IF members = {} THEN groups[g]
        ELSE [groups[g] EXCEPT !.primary_file_id = CHOOSE x \in members : \A y \in members : x >= y]]

\* PlannerService.build_plan, first loop: every group gets the smallest file_id of its
\* fingerprint as primary_file_id.
SetPrimaries(groups) ==
  [g \in DOMAIN groups |->
     LET members == {i \in FileIds : files[i].sha256 = groups[g].sha256}
     IN IF members = {} THEN groups[g]
        ELSE [groups[g] EXCEPT !.primary_file_id = Min(members)]]

\* Variant of IsPrimary: a row is primary only when its group names it.
IsPrimary_byId(group_id, primary_file_id, file_id) == primary_file_id = file_id

\* PlannerService.build_plan line 47: is_primary of a row of the LEFT JOIN (group_id and
\* primary_file_id are NULL when no group joined).
IsPrimary(group_id, primary_file_id, file_id) ==
  group_id = NULL \/ primary_file_id = file_id

\* PlannerService.build_plan, second loop body: the PlanItem of one file row.
PlanItemFor(groups, f) ==
  LET row        == files[f]
      group_id   == IF row.sha256 = NULL THEN NULL ELSE GroupIdOf(groups, row.sha256)
      is_primary == IsPrimary(group_id,
                              IF group_id = NULL THEN NULL ELSE PrimaryOf(groups, group_id), f)
      isDup      == group_id # NULL /\ ~is_primary
      rel        == IF isDup THEN duplicates_rel_path(RunId, row.filename)
                    ELSE dest_rel_path(row.media_type, row.chosen_date, row.filename)
      resolved   == resolve_collision(dirname(rel), basename(rel))
  IN [file_id             |-> f,
      action              |-> IF isDup THEN "COPY_TO_DUPLICATES" ELSE "COPY",
      dest_path           |-> IF isDup THEN rel ELSE Append(dirname(rel), resolved[1]),
      collision_suffix    |-> IF isDup THEN 0 ELSE resolved[2],
      duplicate_group_id  |-> group_id,
      is_primary_in_group |-> is_primary,
      status              |-> "PENDING",
      error_code          |-> "NONE"]

\* Variant of build_plan: an item planned before keeps the status it had.
build_plan_keep(groups) ==
  [f \in FileIds |->
     IF f \in DOMAIN plan_items
       THEN [PlanItemFor(groups, f) EXCEPT !.status = plan_items[f].status]
       ELSE PlanItemFor(groups, f)]

\* Variant of build_plan: a file planned before keeps the destination it was given then.
build_plan_sticky(groups) ==
  [f \in FileIds |->
     IF f \in DOMAIN plan_items
       THEN [PlanItemFor(groups, f) EXCEPT !.dest_path = plan_items[f].dest_path,
                                           !.collision_suffix = plan_items[f].collision_suffix]
       ELSE PlanItemFor(groups, f)]

\* PlannerService.build_plan: clear_plan, then one item per file row in file_id order.
build_plan(groups) == [f \in FileIds |-> PlanItemFor(groups, f)]

(* -------------------------------- Init --------------------------------- *)
SourceFile == [name : FileNames, content : Contents, mdate : Dates]

\* Names and contents are labels, so the first walked file fixes them: it is a.jpg with
\* content 1; every other file is free.
SourceTrees ==
  {t \in UNION {[1..n -> SourceFile] : n \in 1..MaxFiles} :
     t[1].name.base = "a" /\ t[1].content = 1}

EmptyDisk == [q \in {} |-> BadContent]

\* The destination root is empty, or already holds one photo under the date folder.
InitialDisks ==
  {EmptyDisk,
   WriteFile(EmptyDisk, <<"Photos", 2024, <<2024, 1, 15>>, [base |-> "a", n |-> 0, ext |-> ".jpg"]>>, 1)}

\* The processes that can show a MainWindow on the store.
Procs == 1..MaxWindows

\* MainWindow.worker and MainWindow.thread before any worker was started.
NoWorker == [kind |-> "none", run |-> 0, pos |-> "none", msg |-> "none"]

\* A process that shows no window.
ClosedWindow == [open |-> FALSE, screen |-> 1, view_plan_btn |-> FALSE, nav |-> TRUE,
                 run_id |-> 0, worker |-> NoWorker]

\* No window is open.
NoWindow == [p \in Procs |-> ClosedWindow]

\* ISO datetimes are <<year, month, day, hour>>; a text that datetime.fromisoformat
\* rejects is a tuple of another length, and <<>> is None (or the empty text).
NoDT == <<>>
MTimeDT == <<2024, 1, 15, 9>>
CaptureDT == <<2023, 7, 14, 18>>
GarbageDT == <<2023>>

\* No directory entry has been walked yet.
NoEntry == [ext |-> "", size |-> 0, attr |-> "none", stat |-> "none", meta |-> "none",
            mtime |-> "none"]

\* The arguments of a call of ScanService.scan before any call.
NoArgs == [min_file_size |-> 0, include_photos |-> FALSE, include_videos |-> FALSE,
           include_raw |-> FALSE, include_other |-> FALSE, skip_cb |-> FALSE,
           stop_flag |-> FALSE]

\* The tables files, hash_groups, plan_items and errors of a store without rows; file_id,
\* group_id, plan_item_id and error_id are the positions in the sequences.
NoPurge == [keep_last |-> 0, status |-> "", dry_run |-> FALSE, to_purge |-> {}]
EmptyStore == [files |-> <<>>, hash_groups |-> <<>>, plan_items |-> <<>>, errors |-> <<>>,
               purge |-> NoPurge]

\* No call of ScanService.scan is under way.
NoScan == [pc |-> "idle", cfg |-> NoArgs, args |-> NoArgs, n |-> 0, cur |-> NoEntry,
           skips |-> <<>>, rows |-> <<>>, count |-> 0, stored |-> <<>>, errs |-> <<>>,
           stop |-> FALSE]

\* The state right after the run was created (RunRepo.create_run).
InitTables ==
  /\ runs = <<>>
  /\ resumed = NULL
  /\ window = NoWindow
  /\ scanning = NoScan
  /\ store = EmptyStore
  /\ files = <<>>
  /\ hash_groups = <<>>
  /\ plan_items = <<>>
  /\ errors = <<>>
  /\ run_status = "CREATED"
  /\ mode = "NONE"
  /\ dry_run = FALSE
  /\ stop = FALSE
  /\ pc = "idle"
  /\ hashTodo = {}
  /\ tasks = <<>>
  /\ items = <<>>
  /\ idx = 0
  /\ attempt = 0
  /\ fresh = TRUE
  /\ faults = 0
  /\ everVerified = {}
  /\ lastOutcome = "none"

InitCommon ==
  /\ srcFiles \in SourceTrees
  /\ disk \in InitialDisks
  /\ InitTables

Init ==
  /\ InitCommon
  /\ retries = DefaultRetries
  /\ error_policy = "RETRY_THEN_SKIP"

(* ------------------------------- actions ------------------------------- *)
Idle ==
  /\ mode' = "NONE"
  /\ pc' = "idle"
  /\ stop' = FALSE
  /\ dry_run' = FALSE
  /\ hashTodo' = {}
  /\ tasks' = <<>>
  /\ items' = <<>>
  /\ idx' = 0
  /\ attempt' = 0
  /\ lastOutcome' = "none"

\* cli-v2.py main: a new run (status CREATED) or --resume of the latest incomplete run.
CliStart(dr) ==
  /\ pc = "idle"
  /\ run_status \in IncompleteStatuses
  /\ fresh' = FALSE
  /\ mode' = "CLI"
  /\ dry_run' = dr
  /\ pc' = "scan"
  /\ UNCHANGED <<auxVars, faults, srcFiles, disk, files, hash_groups, plan_items, errors, run_status, stop,
                 hashTodo, tasks, items, idx, attempt, retries, error_policy, lastOutcome,
                 everVerified>>

\* MainWindow.start_scan_plan + Worker.run_pipeline: always on the run just created.
GuiStart ==
  /\ pc = "idle"
  /\ fresh
  /\ fresh' = FALSE
  /\ mode' = "GUI"
  /\ run_status' = "RUNNING"
  /\ pc' = "scan"
  /\ UNCHANGED <<auxVars, faults, srcFiles, disk, files, hash_groups, plan_items, errors, dry_run, stop,
                 hashTodo, tasks, items, idx, attempt, retries, error_policy, lastOutcome,
                 everVerified>>

\* Positions of the coordinating thread inside hash_all when its threads are modelled one
\* by one: the submission loop, the as_completed loop, the three store calls, and the exit
\* of the with block (pool shutdown).
HashPcs == {"h_submit", "h_collect", "h_set", "h_group", "h_err", "h_drain"}

\* Worker.request_stop, called while the worker is at one of the positions pcs.
RequestStopAt(pcs) ==
  /\ faults < MaxFaults
  /\ faults' = faults + 1
  /\ mode = "GUI"
  /\ pc \in pcs
  /\ ~stop
  /\ stop' = TRUE
  /\ UNCHANGED <<auxVars, srcFiles, disk, files, hash_groups, plan_items, errors, run_status, mode,
                 dry_run, pc, hashTodo, tasks, items, idx, attempt, retries, error_policy, lastOutcome,
                 fresh, everVerified>>

\* The flag is only read at the polls of hash_all and execute, so a request is taken at
\* the poll that first sees it (a request during scan is the one seen by the first poll of
\* hash_all).
RequestStop == RequestStopAt({"hash", "exec"} \cup HashPcs)

\* Variant of stop_seen: execute as called without a stop_flag.
stop_seen_never == FALSE

\* ExecutorService.execute line 14, the poll "stop_flag and stop_flag()" at the top of the
\* item loop.
stop_seen == stop

\* ScanService.scan, then update_status SCANNED, then hash_all selects its rows.
Scan(now) ==
  /\ pc = "scan"
  /\ files' = upsert_files(now)
  /\ run_status' = "SCANNED"
  /\ hashTodo' = list_files_for_hashing(files')
  /\ UNCHANGED tasks
  /\ pc' = "hash"
  /\ UNCHANGED <<auxVars, srcFiles, disk, hash_groups, plan_items, errors, mode, dry_run, stop, items,
                 idx, attempt, retries, error_policy, lastOutcome, fresh, faults, everVerified>>

\* HashService.hash_all, one iteration of the as_completed loop: the result of file f
\* is applied, or its failure is logged.
HashApply(f, ok) ==
  /\ pc = "hash"
  /\ ~stop
  /\ f \in hashTodo
  /\ hashTodo' = hashTodo \ {f}
  /\ UNCHANGED tasks
  /\ IF ok
       THEN /\ files' = set_sha256(f, sha256_file(srcFiles[f].content))
            /\ hash_groups' = upsert_group(sha256_file(srcFiles[f].content))
            /\ UNCHANGED <<errors, faults>>
       ELSE /\ faults < MaxFaults
            /\ faults' = faults + 1
            /\ errors' = hash_error(f)
            /\ UNCHANGED <<files, hash_groups>>
  /\ UNCHANGED <<auxVars, srcFiles, disk, plan_items, run_status, mode, dry_run, stop, pc, items, idx,
                 attempt, retries, error_policy, lastOutcome, fresh, everVerified>>

\* HashService.hash_all returns: every result consumed, or the stop flag was seen.
HashReturn ==
  /\ pc = "hash"
  /\ hashTodo = {} \/ stop
  /\ hashTodo' = {}
  /\ UNCHANGED tasks
  /\ pc' = "plan"
  /\ UNCHANGED <<auxVars, srcFiles, disk, files, hash_groups, plan_items, errors, run_status, mode,
                 dry_run, stop, items, idx, attempt, retries, error_policy, lastOutcome, fresh, faults,
                 everVerified>>

\* PlannerService.build_plan, then update_status PLANNED.
BuildPlan ==
  /\ pc = "plan"
  /\ hash_groups' = SetPrimaries(hash_groups)
  /\ plan_items' = build_plan(hash_groups')
  /\ run_status' = "PLANNED"
  /\ pc' = "planned"
  /\ UNCHANGED <<auxVars, srcFiles, disk, files, errors, mode, dry_run, stop, hashTodo, tasks, items, idx,
                 attempt, retries, error_policy, lastOutcome, fresh, faults, everVerified>>

\* PlannerService.build_plan raises. stage says where: in clear_plan ("clear"), in the
\* primary update before its commit ("primaries"), in the item loop (os.makedirs,
\* resolve_collision: "items") or in insert_plan_items ("insert"). What was committed
\* before stays; the exception leaves build_plan and ends the pipeline of the caller, which
\* does not reach update_status PLANNED.
PlanFailStages == {"clear", "primaries", "items", "insert"}

BuildPlanFail(stage) ==
  /\ pc = "plan"
  /\ faults < MaxFaults
  /\ faults' = faults + 1
  /\ plan_items' = IF stage = "clear" THEN plan_items ELSE <<>>
  /\ hash_groups' = IF stage \in {"items", "insert"} THEN SetPrimaries(hash_groups)
                    ELSE hash_groups
  /\ Idle
  /\ UNCHANGED <<auxVars, srcFiles, disk, files, errors, run_status, retries, error_policy, fresh,
                 everVerified>>

\* Variant of plan_only: the dry_run setting is not looked at.
plan_only_never == FALSE

\* cli-v2.py main line 343 (cli.py line 227): if cfg.get("dry_run"): return
plan_only == dry_run

\* The pipeline ends after Plan: Worker.run_pipeline, or cli-v2.py with dry_run.
PlanReturn ==
  /\ pc = "planned"
  /\ mode = "GUI" \/ plan_only
  /\ Idle
  /\ UNCHANGED <<auxVars, srcFiles, disk, files, hash_groups, plan_items, errors, run_status, retries,
                 error_policy, fresh, faults, everVerified>>

\* cli-v2.py main: the pipeline goes on to Execute with the pending selection.
CliExecStart ==
  /\ pc = "planned"
  /\ mode = "CLI" /\ ~plan_only
  /\ items' = list_pending_for_execution
  /\ idx' = 1
  /\ attempt' = 0
  /\ pc' = "exec"
  /\ UNCHANGED <<auxVars, srcFiles, disk, files, hash_groups, plan_items, errors, run_status, mode,
                 dry_run, stop, hashTodo, tasks, retries, error_policy, lastOutcome, fresh, faults,
                 everVerified>>

\* MainWindow.start_execute + Worker.execute_plan: Execute on the stored plan.
GuiExecStart ==
  /\ pc = "idle"
  /\ run_status \in {"PLANNED", "RUNNING", "PAUSED", "FAILED"}
  /\ fresh' = FALSE
  /\ mode' = "GUI"
  /\ stop' = FALSE
  /\ items' = list_pending_for_execution
  /\ idx' = 1
  /\ attempt' = 0
  /\ pc' = "exec"
  /\ UNCHANGED <<auxVars, faults, srcFiles, disk, files, hash_groups, plan_items, errors, run_status, dry_run,
                 hashTodo, tasks, retries, error_policy, lastOutcome, everVerified>>

\* ExecutorService.execute, top of the item loop: stop check, then mark_copying.
ExecBegin ==
  /\ pc = "exec"
  /\ idx <= Len(items)
  /\ ~stop_seen
  /\ plan_items' = mark_copying(plan_items, items[idx].plan_item_id)
  /\ attempt' = 0
  /\ lastOutcome' = "none"
  /\ pc' = "attempt"
  /\ UNCHANGED <<auxVars, srcFiles, disk, files, hash_groups, errors, run_status, mode, dry_run, stop,
                 hashTodo, tasks, items, idx, retries, error_policy, fresh, faults,
                 everVerified>>

\* ExecutorService.execute lines 12 and 49-51: done is 0 before the for loop and goes up by
\* one at the end of every pass, where progress_cb(done, total, src, dst) is called: it is
\* the number of items the loop has left behind.
done == IF idx = 0 THEN 0 ELSE idx - 1

\* organizer_io/file_copy.py copy_stream: the destination tree after one call.
copy_stream(d, content, dst, outcome) ==
  CASE outcome = "ok" -> WriteFile(d, dst, content)
    [] outcome = "corrupt" -> WriteFile(d, dst, BadContent)
    [] outcome = "io_write" -> WriteFile(d, dst, BadContent)
    [] OTHER -> d

\* Variant of Mismatch: whatever the two fingerprints are, nothing is raised.
Mismatch_never(expected, actual) == FALSE

\* ExecutorService.execute: does the comparison of line 30 raise SHA256_MISMATCH?
Mismatch(expected, actual) == expected # NULL /\ actual # expected

\* Variant of MayRetry: one more repetition is allowed.
MayRetry_oneMore(policy, att, rts) == policy = "RETRY_THEN_SKIP" /\ att <= rts + 1

\* ExecutorService.execute: may a failed attempt be repeated?
MayRetry(policy, att, rts) == policy = "RETRY_THEN_SKIP" /\ att <= rts

\* ExecutorService.execute, one pass of the while loop for the current item.
ExecAttempt(outcome) ==
  /\ pc = "attempt"
  /\ LET it       == items[idx]
         f        == it.file_id
         raised   == outcome \in {"io_open", "io_write"}
         newDisk  == copy_stream(disk, srcFiles[f].content, it.dest_path, outcome)
         mismatch == ~raised /\ Mismatch(it.source_sha256, sha256_file(newDisk[it.dest_path]))
         code     == IF mismatch THEN "VERIFY_FAIL" ELSE "COPY_FAIL"
     IN /\ attempt' = attempt + 1
        /\ lastOutcome' = outcome
        /\ IF attempt = 0 /\ outcome # "ok"
             THEN faults < MaxFaults /\ faults' = faults + 1
             ELSE UNCHANGED faults
        /\ disk' = newDisk
        /\ IF ~raised /\ ~mismatch
             THEN /\ plan_items' = mark_verified(plan_items, it.plan_item_id)
                  /\ everVerified' = everVerified \cup {<<f, it.dest_path>>}
                  /\ idx' = idx + 1
                  /\ pc' = "exec"
                  /\ UNCHANGED errors
             ELSE IF MayRetry(error_policy, attempt', retries)
               THEN UNCHANGED <<plan_items, everVerified, idx, pc, errors>>
               ELSE /\ plan_items' = mark_failed(plan_items, it.plan_item_id, code)
                    /\ errors' = error_add(errors, IF code = "COPY_FAIL" THEN "COPY" ELSE "VERIFY",
                                           code, f)
                    /\ idx' = idx + 1
                    /\ pc' = "exec"
                    /\ UNCHANGED everVerified
  /\ UNCHANGED <<auxVars, srcFiles, files, hash_groups, run_status, mode, dry_run, stop, hashTodo, tasks,
                 items, retries, error_policy, fresh>>

\* Execute returns (selection exhausted, or stop seen between items); the caller
\* (cli-v2.py main, Worker.execute_plan) sets the run COMPLETED. cli-v2.py ends; the
\* window goes to its completed screen (on_worker_finished, show_completed).
ExecReturn ==
  /\ pc = "exec"
  /\ idx > Len(items) \/ stop_seen
  /\ run_status' = "COMPLETED"
  /\ IF mode = "GUI"
       THEN /\ pc' = "completed"
            /\ stop' = FALSE
            /\ dry_run' = FALSE
            /\ hashTodo' = {}
            /\ tasks' = <<>>
            /\ items' = <<>>
            /\ idx' = 0
            /\ attempt' = 0
            /\ lastOutcome' = "none"
            /\ UNCHANGED mode
       ELSE Idle
  /\ UNCHANGED <<auxVars, srcFiles, disk, files, hash_groups, plan_items, errors, retries,
                 error_policy, fresh, faults, everVerified>>

\* The window is closed on its completed screen.
GuiClose ==
  /\ pc = "completed"
  /\ Idle
  /\ UNCHANGED <<auxVars, srcFiles, disk, files, hash_groups, plan_items, errors, run_status, retries,
                 error_policy, fresh, faults, everVerified>>

RemoveFiles(d, paths) == [p \in DOMAIN d \ paths |-> d[p]]

\* Variant of rollback_items: every item of the plan is swept.
rollback_items_all == plan_items

\* RollbackService.rollback line 11-15: the VERIFIED items of the run's plan.
rollback_items == SelectSeq(plan_items, LAMBDA it : it.status = "VERIFIED")

\* Variant of rollback_removed: the sweep is given up when a deletion fails.
rollback_removed_halting(paths, failedPaths) == IF failedPaths = {} THEN paths ELSE {}

\* RollbackService.rollback lines 17-23: the paths the sweep removes, given the existing
\* destination paths of its items and the ones where os.remove raises.
rollback_removed(paths, failedPaths) == paths \ failedPaths

\* RollbackService.rollback lines 25-26.
rollback_status(failedPaths) == "ROLLED_BACK"

\* MainWindow.rollback_run + RollbackService.rollback, from the completed screen.
\* failedPaths: the destination paths whose os.remove raises.
Rollback(failedPaths) ==
  /\ pc = "completed"
  /\ LET paths   == {rollback_items[k].dest_path : k \in DOMAIN rollback_items} \cap DOMAIN disk
         failing == SelectSeq(rollback_items, LAMBDA it : it.dest_path \in failedPaths)
     IN /\ failedPaths \subseteq paths
        /\ faults + Cardinality(failedPaths) <= MaxFaults
        /\ faults' = faults + Cardinality(failedPaths)
        /\ disk' = RemoveFiles(disk, rollback_removed(paths, failedPaths))
        /\ errors' = errors \o [k \in DOMAIN failing |->
                                  [phase |-> "ROLLBACK", code |-> "NONE",
                                   file_id |-> failing[k].file_id]]
        /\ run_status' = rollback_status(failedPaths)
  /\ UNCHANGED <<auxVars, srcFiles, files, hash_groups, plan_items, mode, dry_run, stop, pc, hashTodo,
                 tasks, items, idx, attempt, retries, error_policy, lastOutcome, fresh,
                 everVerified>>

\* The process is killed; the store and the source tree stay as they are. A kill inside
\* copy_stream (partial) leaves a truncated destination file. A kill while the plan is
\* built or right after it leaves what a kill at the end of hash_all, or the return after
\* Plan, leaves.
Crash(partial) ==
  /\ faults < MaxFaults
  /\ faults' = faults + 1
  /\ pc \in {"scan", "hash", "exec", "attempt"}
  /\ partial => pc = "attempt"
  /\ disk' = IF partial THEN WriteFile(disk, items[idx].dest_path, BadContent) ELSE disk
  /\ Idle
  /\ UNCHANGED <<auxVars, srcFiles, files, hash_groups, plan_items, errors, run_status, retries,
                 error_policy, fresh, everVerified>>

Next ==
  \/ \E dr \in BOOLEAN : CliStart(dr)
  \/ GuiStart
  \/ RequestStop
  \/ Scan(ScanTime)
  \/ \E f \in hashTodo, ok \in BOOLEAN : HashApply(f, ok)
  \/ HashReturn
  \/ BuildPlan
  \/ PlanReturn
  \/ CliExecStart
  \/ GuiExecStart
  \/ ExecBegin
  \/ \E o \in Outcomes : ExecAttempt(o)
  \/ ExecReturn
  \/ \E partial \in BOOLEAN : Crash(partial)

Spec == Init /\ [][Next]_vars

\* The pipelines of Spec and Rollback.
NextRollback ==
  \/ Next
  \/ GuiClose
  \/ \E failedPaths \in SUBSET DOMAIN disk : Rollback(failedPaths)

SpecRollback == Init /\ [][NextRollback]_vars

\* The window alone: scan and plan of a new run, Execute, Rollback.
NextGuiRollback ==
  \/ GuiStart
  \/ RequestStop
  \/ Scan(ScanTime)
  \/ \E f \in hashTodo, ok \in BOOLEAN : HashApply(f, ok)
  \/ HashReturn
  \/ BuildPlan
  \/ PlanReturn
  \/ GuiExecStart
  \/ ExecBegin
  \/ \E o \in Outcomes : ExecAttempt(o)
  \/ ExecReturn
  \/ GuiClose
  \/ \E failedPaths \in SUBSET DOMAIN disk : Rollback(failedPaths)

SpecGuiRollback == Init /\ [][NextGuiRollback]_vars

\* The window alone, with a stop that can be requested at any moment of Execute, also
\* while an item is being copied.
NextExecStop ==
  \/ GuiStart
  \/ RequestStopAt({"hash", "exec", "attempt"})
  \/ Scan(ScanTime)
  \/ \E f \in hashTodo, ok \in BOOLEAN : HashApply(f, ok)
  \/ HashReturn
  \/ BuildPlan
  \/ PlanReturn
  \/ GuiExecStart
  \/ ExecBegin
  \/ \E o \in Outcomes : ExecAttempt(o)
  \/ ExecReturn

SpecExecStop == Init /\ [][NextExecStop]_vars

\* The pipelines of Spec with a build_plan that can raise.
NextPlanFail ==
  \/ Next
  \/ \E stage \in PlanFailStages : BuildPlanFail(stage)

SpecPlanFail == Init /\ [][NextPlanFail]_vars

\* Between two pipelines the source file at walk position i is rewritten: other bytes, a
\* later modification date, the same path.
Touch(i) ==
  /\ pc = "idle"
  /\ faults < MaxFaults
  /\ faults' = faults + 1
  /\ i \in DOMAIN srcFiles
  /\ srcFiles[i].mdate # TouchedDate
  /\ srcFiles' = [srcFiles EXCEPT ![i].content = CHOOSE c \in Contents : c # srcFiles[i].content,
                                  ![i].mdate = TouchedDate]
  /\ UNCHANGED <<auxVars, disk, files, hash_groups, plan_items, errors, run_status, mode, dry_run, stop,
                 pc, hashTodo, tasks, items, idx, attempt, retries, error_policy, lastOutcome, fresh,
                 everVerified>>

\* Repeated scan, hash and plan (cli-v2.py with dry_run, new or resumed) over a source
\* tree whose files may be rewritten between two pipelines.
NextRescan ==
  \/ CliStart(TRUE)
  \/ \E now \in Times : Scan(now)
  \/ \E f \in hashTodo, ok \in BOOLEAN : HashApply(f, ok)
  \/ HashReturn
  \/ BuildPlan
  \/ PlanReturn
  \/ \E i \in 1..MaxFiles : Touch(i)

SpecRescan == Init /\ [][NextRescan]_vars

(* ------------------------ plans over every media class ------------------ *)
\* Source files of the four classes, with and without extension; the videos are of
\* another year than the rest.
LayoutNames == {[base |-> "a", n |-> 0, ext |-> e] : e \in {".jpg", ".mp4", ".cr2", ".txt", ""}}
LayoutFile ==
  {[name |-> nm, content |-> c,
    mdate |-> IF nm.ext = ".mp4" THEN <<2023, 12, 31>> ELSE <<2024, 1, 15>>] :
     nm \in LayoutNames, c \in Contents}

LayoutTrees ==
  {t \in UNION {[1..n -> LayoutFile] : n \in 1..MaxFiles} : t[1].content = 1}

\* The destination root is empty, or already holds a.txt under OtherByExt/TXT.
LayoutDisks ==
  {EmptyDisk,
   WriteFile(EmptyDisk, <<"OtherByExt", "TXT", [base |-> "a", n |-> 0, ext |-> ".txt"]>>, 1)}

InitLayout ==
  /\ srcFiles \in LayoutTrees
  /\ disk \in LayoutDisks
  /\ InitTables
  /\ retries = DefaultRetries
  /\ error_policy = "RETRY_THEN_SKIP"

\* cli-v2.py main with --dry-run up to the plan.
NextLayout ==
  \/ CliStart(TRUE)
  \/ Scan(ScanTime)
  \/ \E f \in hashTodo, ok \in BOOLEAN : HashApply(f, ok)
  \/ HashReturn
  \/ BuildPlan
  \/ PlanReturn

SpecLayout == InitLayout /\ [][NextLayout]_vars

(* ------------------------- several runs in one store --------------------- *)
\* The store right after Database.init: no run yet; the source tree and the destination
\* play no part in what follows and are fixed.
InitStore ==
  /\ Init
  /\ srcFiles = CHOOSE t \in SourceTrees : Len(t) = 1
  /\ disk = EmptyDisk

\* The statuses update_status and rollback write.
WrittenStatuses == {"RUNNING", "SCANNED", "PLANNED", "COMPLETED", "FAILED", "ROLLED_BACK"}

IncompleteRuns(rs) == {i \in DOMAIN rs : rs[i].status \in IncompleteStatuses}

\* RunRepo.latest_incomplete: the rows the query may return (NULL: none). ORDER BY
\* created_at DESC LIMIT 1 leaves the choice among rows with equal created_at open.
latest_incomplete(rs) ==
  IF IncompleteRuns(rs) = {} THEN {NULL}
  ELSE {i \in IncompleteRuns(rs) :
          \A j \in IncompleteRuns(rs) : rs[j].created_at <= rs[i].created_at}

\* RunService.create / RunRepo.create_run at clock reading t. now_iso() has a resolution
\* of one second, so a run can get the created_at of the run before it.
CreateRun(t) ==
  /\ Len(runs) < MaxRuns
  /\ runs # <<>> => runs[Len(runs)].created_at <= t
  /\ runs' = Append(runs, [status |-> "CREATED", created_at |-> t])
  /\ UNCHANGED <<runVars, resumed, window, scanning, store>>

\* RunRepo.update_status (and the UPDATE of rollback) on run i.
UpdateStatus(i, st) ==
  /\ i \in DOMAIN runs
  /\ runs' = [runs EXCEPT ![i].status = st]
  /\ UNCHANGED <<runVars, resumed, window, scanning, store>>

\* cli-v2.py --resume (and MainWindow._maybe_restore_last_run): the run to go on with.
Resume ==
  /\ resumed' \in latest_incomplete(runs)
  /\ UNCHANGED <<runVars, runs, window, scanning, store>>

NextResume ==
  \/ \E t \in Times : CreateRun(t)
  \/ \E i \in 1..MaxRuns, st \in WrittenStatuses : UpdateStatus(i, st)
  \/ Resume

SpecResume == InitStore /\ [][NextResume]_vars

(* ------------------- scan, hash and plan of several runs ----------------- *)
\* Two runs share the store.
RunIds == {1, 2}

\* The source tree of a run: the contents of its files, in walk order; the source_path of
\* a file is its position. A tree holds one file, two files of one content or two files of
\* two contents.
RunTrees == {<<1>>, <<2>>, <<1, 1>>, <<1, 2>>}

\* Variant of SameGroup: the fingerprint alone names the group.
SameGroup_anyRun(hg, run_id, sha256) == hg.sha256 = sha256

\* WHERE run_id=? AND sha256=? of upsert_group and build_plan, and the ON clause
\* hg.run_id=f.run_id AND hg.sha256=f.sha256 of build_plan.
SameGroup(hg, run_id, sha256) == hg.run_id = run_id /\ hg.sha256 = sha256

\* FileRepo.upsert_files for the files of tree, one row after the other: a row of the run
\* with the same source_path is kept with its file_id and sha256. content is not a column:
\* it is what the file at source_path holds.
RECURSIVE FileRepo_upsert_files(_, _, _, _)
FileRepo_upsert_files(fs, run_id, tree, p) ==
  IF p > Len(tree) THEN fs
  ELSE LET hit == {i \in DOMAIN fs : fs[i].run_id = run_id /\ fs[i].source_path = p}
       IN FileRepo_upsert_files(
            IF hit = {}
            THEN Append(fs, [run_id |-> run_id, source_path |-> p, content |-> tree[p],
                             sha256 |-> NULL])
            ELSE [i \in DOMAIN fs |-> IF i \in hit THEN [fs[i] EXCEPT !.content = tree[p]]
                                       ELSE fs[i]],
            run_id, tree, p + 1)

\* FileRepo.list_files_for_hashing: file_ids of the run without sha256.
FileRepo_list_files_for_hashing(fs, run_id) ==
  {i \in DOMAIN fs : fs[i].run_id = run_id /\ fs[i].sha256 = NULL}

\* HashGroupRepo.upsert_group
HashGroupRepo_upsert_group(groups, run_id, sha256) ==
  IF \E g \in DOMAIN groups : SameGroup(groups[g], run_id, sha256) THEN groups
  ELSE Append(groups, [run_id |-> run_id, sha256 |-> sha256, primary_file_id |-> NULL])

\* HashService.hash_all on the rows todo: the files in failing raise in sha256_file and
\* get an error, the others get their sha256 and their group. The results are taken in
\* file_id order here; the orders of completion are in SpecHash.
RECURSIVE HashRows(_, _, _, _)
HashRows(S, run_id, todo, failing) ==
  IF todo = {} THEN S
  ELSE LET f == Min(todo)
           h == sha256_file(S.files[f].content)
       IN HashRows(
            IF f \in failing
            THEN [S EXCEPT !.errors = Append(@, [run_id |-> run_id, phase |-> "HASH",
                                                 file_id |-> f])]
            ELSE [S EXCEPT !.files[f].sha256 = h,
                           !.hash_groups = HashGroupRepo_upsert_group(@, run_id, h)],
            run_id, todo \ {f}, failing)

\* PlanRepo.clear_plan
PlanRepo_clear_plan(plan, run_id) == SelectSeq(plan, LAMBDA it : it.run_id # run_id)

\* PlannerService.build_plan lines 18-30: the smallest file_id of each fingerprint of the
\* run becomes the primary of the group found for it.
PlannerPrimaries(S, run_id) ==
  [g \in DOMAIN S.hash_groups |->
     LET shas == {S.files[i].sha256 : i \in {j \in DOMAIN S.files :
                     S.files[j].run_id = run_id /\ S.files[j].sha256 # NULL}}
         mine == {h \in shas : SameGroup(S.hash_groups[g], run_id, h)
                               /\ g = Min({k \in DOMAIN S.hash_groups :
                                              SameGroup(S.hash_groups[k], run_id, h)})}
     IN IF mine = {} THEN S.hash_groups[g]
        ELSE [S.hash_groups[g] EXCEPT !.primary_file_id =
                Min({j \in DOMAIN S.files : S.files[j].run_id = run_id
                                            /\ S.files[j].sha256 \in mine})]]

\* PlannerService.build_plan lines 32-78 for file f: the joined group decides the action.
PlannerItem(groups, fs, run_id, f) ==
  LET joined == {g \in DOMAIN groups : fs[f].sha256 # NULL
                                       /\ SameGroup(groups[g], fs[f].run_id, fs[f].sha256)}
      group_id == IF joined = {} THEN NULL ELSE Min(joined)
      is_primary == group_id = NULL \/ groups[group_id].primary_file_id = f
  IN [run_id |-> run_id, file_id |-> f,
      action |-> IF group_id # NULL /\ ~is_primary THEN "COPY_TO_DUPLICATES" ELSE "COPY",
      duplicate_group_id |-> group_id, is_primary_in_group |-> is_primary,
      status |-> "PENDING"]

\* The items of build_plan for the files ids of the run, in file_id order.
RECURSIVE PlannerItems(_, _, _, _)
PlannerItems(groups, fs, run_id, ids) ==
  IF ids = {} THEN <<>>
  ELSE <<PlannerItem(groups, fs, run_id, Min(ids))>>
       \o PlannerItems(groups, fs, run_id, ids \ {Min(ids)})

\* ScanService.scan of run run_id on its source tree; a run is scanned once here, the
\* second scan of a run is in SpecRescan.
RunScan(run_id, tree) ==
  /\ \A i \in DOMAIN store.files : store.files[i].run_id # run_id
  /\ store' = [store EXCEPT !.files = FileRepo_upsert_files(@, run_id, tree, 1)]
  /\ UNCHANGED <<runVars, runs, resumed, window, scanning>>

\* HashService.hash_all of run run_id.
RunHash(run_id, failing) ==
  LET todo == FileRepo_list_files_for_hashing(store.files, run_id) IN
  /\ todo # {}
  /\ failing \subseteq todo
  /\ Len(store.errors) + Cardinality(failing) <= MaxFaults
  /\ store' = HashRows(store, run_id, todo, failing)
  /\ UNCHANGED <<runVars, runs, resumed, window, scanning>>

\* PlannerService.build_plan of run run_id.
RunPlan(run_id) ==
  LET groups == PlannerPrimaries(store, run_id)
      ids == {i \in DOMAIN store.files : store.files[i].run_id = run_id}
  IN
  /\ ids # {}
  /\ store' = [store EXCEPT
       !.hash_groups = groups,
       !.plan_items = PlanRepo_clear_plan(@, run_id)
                      \o PlannerItems(groups, store.files, run_id, ids)]
  /\ UNCHANGED <<runVars, runs, resumed, window, scanning>>

NextRuns ==
  \E run_id \in RunIds :
    \/ \E tree \in RunTrees : RunScan(run_id, tree)
    \/ \E failing \in SUBSET DOMAIN store.files : RunHash(run_id, failing)
    \/ RunPlan(run_id)

SpecRuns == InitStore /\ [][NextRuns]_vars

(* ------------------------------ purge_db.py ----------------------------- *)
\* A row of runs that purge deleted keeps its place, so that run ids stay positions.
LiveRuns(rs) == {i \in DOMAIN rs : rs[i].status # "DELETED"}

\* The sequences without repetition over the set S.
Perms(S) ==
  {q \in [1..Cardinality(S) -> S] : \A i, j \in 1..Cardinality(S) : q[i] = q[j] => i = j}

\* select_runs: the orders in which SELECT ... FROM runs ORDER BY created_at DESC may
\* return the rows; rows with equal created_at come in either order.
select_runs(rs) ==
  {q \in Perms(LiveRuns(rs)) :
     \A i, j \in DOMAIN q : i < j => rs[q[i]].created_at >= rs[q[j]].created_at}

\* choose_runs_to_purge with --keep-last (no --run-id, no --older-than-days): the status
\* filter, then filtered[keep_last:].
choose_runs_to_purge(rs, rows, keep_last, status) ==
  LET filtered == SelectSeq(rows, LAMBDA i : status = "" \/ rs[i].status = status)
  IN Range(SubSeq(filtered, Min({keep_last, Len(filtered)}) + 1, Len(filtered)))

\* delete_by_run_id without dry_run, for the runs in ids: DELETE FROM every table with a
\* run_id column.
DeleteRows(t, ids) == SelectSeq(t, LAMBDA row : row.run_id \notin ids)

\* The values of --status in what follows ("": not given).
PurgeStatuses == {"", "COMPLETED"}

\* purge_db.py main with --keep-last keep_last, --status status and --dry-run or not.
Purge(keep_last, status, dry) ==
  /\ LiveRuns(runs) # {}
  /\ \E rows \in select_runs(runs) :
       LET to_purge == choose_runs_to_purge(runs, rows, keep_last, status)
           args == [keep_last |-> keep_last, status |-> status, dry_run |-> dry,
                    to_purge |-> to_purge]
       IN IF dry \/ to_purge = {}
          THEN /\ store' = [store EXCEPT !.purge = args]
               /\ UNCHANGED runs
          ELSE /\ runs' = [i \in DOMAIN runs |->
                             IF i \in to_purge THEN [runs[i] EXCEPT !.status = "DELETED"]
                             ELSE runs[i]]
               /\ store' = [files |-> DeleteRows(store.files, to_purge),
                            hash_groups |-> DeleteRows(store.hash_groups, to_purge),
                            plan_items |-> DeleteRows(store.plan_items, to_purge),
                            errors |-> DeleteRows(store.errors, to_purge),
                            purge |-> args]
  /\ UNCHANGED <<runVars, resumed, window, scanning>>

\* The pipeline of run run_id up to its plan, over one file or two files of the same bytes.
PurgePipeline(run_id, tree) ==
  /\ run_id \in LiveRuns(runs)
  /\ \A i \in DOMAIN store.files : store.files[i].run_id # run_id
  /\ LET scanned == [store EXCEPT !.files = FileRepo_upsert_files(@, run_id, tree, 1)]
         hashed == HashRows(scanned, run_id,
                            FileRepo_list_files_for_hashing(scanned.files, run_id), {})
         groups == PlannerPrimaries(hashed, run_id)
         ids == {i \in DOMAIN hashed.files : hashed.files[i].run_id = run_id}
     IN store' = [hashed EXCEPT !.hash_groups = groups,
                                !.plan_items = PlannerItems(groups, hashed.files, run_id, ids)]
  /\ runs' = [runs EXCEPT ![run_id].status = "PLANNED"]
  /\ UNCHANGED <<runVars, resumed, window, scanning>>

NextPurge ==
  \/ \E t \in Times : CreateRun(t)
  \/ \E i \in DOMAIN runs, st \in {"COMPLETED", "FAILED"} :
       i \in LiveRuns(runs) /\ UpdateStatus(i, st)
  \/ \E i \in DOMAIN runs : PurgePipeline(i, <<1, 1>>)
  \/ \E keep_last \in 0..MaxRuns, status \in PurgeStatuses, dry \in BOOLEAN :
       Purge(keep_last, status, dry)

SpecPurge == InitStore /\ [][NextPurge]_vars

(* ------------------------ the window and its workers -------------------- *)
\* MainWindow.__init__ with _maybe_restore_last_run: the window opens on screen 1 and,
\* when an incomplete run is found and the user answers yes, takes it over.
OpenWindow(p, yes) ==
  /\ ~window[p].open
  /\ \E last \in latest_incomplete(runs) :
       window' = [window EXCEPT ![p] =
         IF last = NULL \/ ~yes
         THEN [ClosedWindow EXCEPT !.open = TRUE]
         ELSE [ClosedWindow EXCEPT !.open = TRUE, !.run_id = last,
                 !.screen = IF runs[last].status \in {"PLANNED", "RUNNING", "PAUSED", "FAILED"}
                            THEN 3 ELSE 2]]
  /\ UNCHANGED <<runVars, runs, resumed, scanning, store>>

\* The buttons that only change the screen: Next (1 to 2), Back (2 to 1, 3 to 2) and
\* View plan (4 to 3).
Navigate(p) ==
  /\ window[p].open
  /\ \E to \in 1..3 :
       /\ \/ window[p].screen = 1 /\ to = 2
          \/ window[p].screen = 2 /\ to = 1 /\ window[p].nav
          \/ window[p].screen = 3 /\ to = 2
          \/ window[p].screen = 4 /\ to = 3 /\ window[p].view_plan_btn
       /\ window' = [window EXCEPT ![p].screen = to]
  /\ UNCHANGED <<runVars, runs, resumed, scanning, store>>

\* self.thread = QThread() while the thread before it has not been quit: the QThread is
\* destroyed while running, which ends the process.
ThreadAlive(w) == w.worker.kind # "none"

\* MainWindow.start_scan_plan at clock reading t.
start_scan_plan(p, t) ==
  /\ window[p].open /\ window[p].screen = 2 /\ window[p].nav
  /\ Len(runs) < MaxRuns
  /\ runs # <<>> => runs[Len(runs)].created_at <= t
  /\ runs' = Append(runs, [status |-> "CREATED", created_at |-> t])
  /\ window' = [window EXCEPT ![p] =
       IF ThreadAlive(window[p]) THEN ClosedWindow
       ELSE [@ EXCEPT !.view_plan_btn = FALSE, !.nav = FALSE, !.run_id = Len(runs) + 1,
                      !.screen = 4,
                      !.worker = [kind |-> "pipeline", run |-> Len(runs) + 1,
                                  pos |-> "start", msg |-> "none"]]]
  /\ UNCHANGED <<runVars, resumed, scanning, store>>

\* MainWindow.start_execute, confirmed.
start_execute(p) ==
  /\ window[p].open /\ window[p].screen = 3
  /\ window[p].run_id # 0
  /\ window' = [window EXCEPT ![p] =
       IF ThreadAlive(window[p]) THEN ClosedWindow
       ELSE [@ EXCEPT !.screen = 4,
                      !.worker = [kind |-> "execute", run |-> window[p].run_id,
                                  pos |-> "start", msg |-> "none"]]]
  /\ UNCHANGED <<runVars, runs, resumed, scanning, store>>

\* One phase of Worker.run_pipeline (RUNNING, scan, SCANNED, hash and plan, PLANNED) or
\* the whole of Worker.execute_plan (COMPLETED, or FAILED on an exception); ok = FALSE:
\* the phase raises.
WorkerStep(p, ok) ==
  LET w == window[p].worker IN
  /\ w.kind # "none" /\ w.pos # "done"
  /\ \/ /\ w.kind = "pipeline" /\ w.pos = "start"
        /\ runs' = [runs EXCEPT ![w.run].status = "RUNNING"]
        /\ window' = [window EXCEPT ![p].worker.pos = "scan"]
     \/ /\ w.kind = "pipeline" /\ w.pos = "scan" /\ ok
        /\ runs' = [runs EXCEPT ![w.run].status = "SCANNED"]
        /\ window' = [window EXCEPT ![p].worker.pos = "plan"]
     \/ /\ w.kind = "pipeline" /\ w.pos = "plan" /\ ok
        /\ runs' = [runs EXCEPT ![w.run].status = "PLANNED"]
        /\ window' = [window EXCEPT ![p].worker.pos = "done", ![p].worker.msg = "PLANNED"]
     \/ /\ w.kind = "pipeline" /\ w.pos \in {"scan", "plan"} /\ ~ok
        /\ runs' = runs
        /\ window' = [window EXCEPT ![p].worker.pos = "done", ![p].worker.msg = "failed"]
     \/ /\ w.kind = "execute" /\ ok
        /\ runs' = [runs EXCEPT ![w.run].status = "COMPLETED"]
        /\ window' = [window EXCEPT ![p].worker.pos = "done", ![p].worker.msg = "COMPLETED"]
     \/ /\ w.kind = "execute" /\ ~ok
        /\ runs' = [runs EXCEPT ![w.run].status = "FAILED"]
        /\ window' = [window EXCEPT ![p].worker.pos = "done", ![p].worker.msg = "failed"]
  /\ UNCHANGED <<runVars, resumed, scanning, store>>

\* MainWindow.on_worker_finished, with show_completed.
on_worker_finished(p) ==
  LET w == window[p].worker IN
  /\ window[p].open /\ w.pos = "done"
  /\ window' = [window EXCEPT ![p] =
       [@ EXCEPT !.worker = NoWorker, !.nav = TRUE,
                 !.view_plan_btn = IF w.msg = "PLANNED" THEN TRUE ELSE @,
                 !.screen = IF w.msg = "COMPLETED" THEN 5 ELSE @]]
  /\ UNCHANGED <<runVars, runs, resumed, scanning, store>>

\* MainWindow.start_new_run, the button of screen 5.
start_new_run(p) ==
  /\ window[p].open /\ window[p].screen = 5
  /\ window' = [window EXCEPT ![p] = [ClosedWindow EXCEPT !.open = TRUE]]
  /\ UNCHANGED <<runVars, runs, resumed, scanning, store>>

\* MainWindow.rollback_run, the button of screen 5, confirmed.
rollback_run(p) ==
  /\ window[p].open /\ window[p].screen = 5
  /\ window[p].run_id # 0
  /\ runs' = [runs EXCEPT ![window[p].run_id].status = "ROLLED_BACK"]
  /\ UNCHANGED <<runVars, window, resumed, scanning, store>>

\* The window is closed: the process ends, and its worker thread with it.
CloseWindow(p) ==
  /\ window[p].open
  /\ window' = [window EXCEPT ![p] = ClosedWindow]
  /\ UNCHANGED <<runVars, runs, resumed, scanning, store>>

NextWindow ==
  \E p \in Procs :
    \/ \E yes \in BOOLEAN : OpenWindow(p, yes)
    \/ Navigate(p)
    \/ \E t \in Times : start_scan_plan(p, t)
    \/ start_execute(p)
    \/ \E ok \in BOOLEAN : WorkerStep(p, ok)
    \/ on_worker_finished(p)
    \/ start_new_run(p)
    \/ rollback_run(p)
    \/ CloseWindow(p)

SpecWindow == InitStore /\ [][NextWindow]_vars

(* ------------------------- scan, one file at a time ---------------------- *)
\* The minimum size of the configuration, and the file sizes around it.
MinFileSize == 2
Sizes == {1, 2}

\* Extensions of the walked files: a photo, a video, a raw image, a document and an
\* excluded sidecar.
ScanExts == {".jpg", ".mp4", ".cr2", ".txt", ".xml"}

\* What the metadata of a file holds for its provider: no capture time, one that parses,
\* one that does not, or a file on which the provider fails.
Metas == {"none", "valid", "garbage", "fail"}

\* A directory entry met by os.walk: attr tells what the filesystem probe says of it,
\* stat what os.stat does, mtime what os.path.getmtime does. Fields that the code never
\* reads for an entry are fixed, so that two entries differ only where the code can tell.
Entries ==
  {e \in [ext : ScanExts, size : Sizes, attr : {"plain", "hidden"},
          stat : {"ok", "missing", "denied", "oserror"}, meta : Metas,
          mtime : {"ok", "error"}] :
     /\ e.attr = "hidden" => e.ext = ".jpg"
     /\ (e.attr = "hidden" \/ e.ext \in EXCLUDED_EXTS) => e.stat = "ok"
     /\ (e.attr = "hidden" \/ e.ext \in EXCLUDED_EXTS \/ e.stat # "ok") => e.size = 2
     /\ (e.attr = "hidden" \/ e.ext \in EXCLUDED_EXTS \/ e.stat # "ok" \/ e.size < MinFileSize)
          => e.mtime = "ok"
     /\ (e.attr = "hidden" \/ e.ext \in EXCLUDED_EXTS \/ e.stat # "ok" \/ e.size < MinFileSize
          \/ e.mtime # "ok" \/ classify_media(e.ext) = "OTHER") => e.meta = "none"}

\* The configurations of a run (ScanConfig), with the minimum size fixed.
ScanConfigs ==
  [min_file_size : {MinFileSize}, include_photos : BOOLEAN, include_videos : BOOLEAN,
   include_raw : BOOLEAN, include_other : BOOLEAN, skip_cb : {FALSE}, stop_flag : {FALSE}]

\* The arguments the front end passes to ScanService.scan for configuration cfg:
\* cli-v2.py passes include_other and a skip_cb, no stop_flag; Worker.run_pipeline
\* passes a stop_flag, no skip_cb, and leaves include_other to its default.
ScanArgs(front, cfg) ==
  IF front = "CLI"
  THEN [cfg EXCEPT !.skip_cb = TRUE, !.stop_flag = FALSE]
  ELSE [cfg EXCEPT !.include_other = FALSE, !.skip_cb = FALSE, !.stop_flag = TRUE]

\* io/fs_scanner.py iter_files: the entry is yielded to the loop of scan.
Yielded(e) == e.attr = "plain" /\ e.ext \notin EXCLUDED_EXTS

\* services/metadata_service.py extract_exif_datetime: a value that strptime parses, as
\* ISO text, and None in every other case.
extract_exif_datetime(e) == IF e.meta = "valid" THEN CaptureDT ELSE NoDT

\* services/video_metadata_service.py extract_video_created_datetime: the creation_time
\* tag as ffprobe prints it, None when there is none or ffprobe fails.
extract_video_created_datetime(e) ==
  CASE e.meta = "valid" -> CaptureDT
    [] e.meta = "garbage" -> GarbageDT
    [] OTHER -> NoDT

\* datetime.fromisoformat accepts the text.
IsIso(dt) == Len(dt) = 4

\* strftime("%Y-%m-%d") of a parsed datetime.
DateOf(dt) == SubSeq(dt, 1, 3)

\* Variant of choose_date: the primary value is used as it is whenever there is one.
choose_date_unparsed(primary_dt, mtime_iso, primary_source) ==
  IF primary_dt # NoDT THEN <<primary_dt, primary_source>>
  ELSE <<DateOf(mtime_iso), "MTIME">>

\* domain/rules.py choose_date
choose_date(primary_dt, mtime_iso, primary_source) ==
  IF primary_dt # NoDT /\ IsIso(primary_dt) THEN <<DateOf(primary_dt), primary_source>>
  ELSE <<DateOf(mtime_iso), "MTIME">>

\* The reason of the first test of the loop body that rejects entry e, "" when none does.
RejectReason(a, e) ==
  LET media_type == classify_media(e.ext) IN
  CASE e.stat = "missing" -> "missing_during_scan"
    [] e.stat = "denied" -> "permission_denied"
    [] e.stat = "oserror" -> "os_stat_error"
    [] e.size < a.min_file_size -> "below_min_size"
    [] e.ext \in EXCLUDED_EXTS -> "excluded_extension"
    [] media_type = "PHOTO" /\ ~a.include_photos -> "filtered_photo"
    [] media_type = "VIDEO" /\ ~a.include_videos -> "filtered_video"
    [] media_type = "RAW" /\ ~a.include_raw -> "filtered_raw"
    [] media_type = "OTHER" /\ ~a.include_other -> "filtered_other"
    [] OTHER -> ""

\* The row scan builds for accepted entry e, met as entry number path of the walk.
ScanRow(path, e) ==
  LET media_type == classify_media(e.ext)
      exif_dt == IF media_type \in {"PHOTO", "RAW"} THEN extract_exif_datetime(e) ELSE NoDT
      video_dt == IF media_type = "VIDEO" THEN extract_video_created_datetime(e) ELSE NoDT
      chosen == CASE media_type \in {"PHOTO", "RAW"} -> choose_date(exif_dt, MTimeDT, "TAKEN_EXIF")
                  [] media_type = "VIDEO" -> choose_date(video_dt, MTimeDT, "CREATED_META")
                  [] OTHER -> choose_date(NoDT, MTimeDT, "PRIMARY")
  IN [source_path |-> path, ext |-> e.ext, media_type |-> media_type, file_size |-> e.size,
      mtime |-> MTimeDT, exif_datetime |-> exif_dt, chosen_date |-> chosen[1],
      date_source |-> chosen[2]]

\* The diagnostics scan emits while it builds the row of an accepted entry.
RowSkips(e, row) ==
  (IF row.media_type = "PHOTO" /\ row.exif_datetime = NoDT
     THEN <<"photo_missing_exif_datetime">>
   ELSE IF row.media_type = "RAW" /\ row.exif_datetime = NoDT
     THEN <<"raw_missing_exif_datetime">>
   ELSE <<>>)
  \o <<"date_source">>

\* _skip: the reasons reach the callback when there is one.
Skipped(a, reasons) == IF a.skip_cb THEN reasons ELSE <<>>

\* Variant of FinalFlush: the rows left in the batch are dropped.
FinalFlush_none(rows, stored) == stored

\* ScanService.scan lines 186-187: the rows left in the batch are written.
FinalFlush(rows, stored) == stored \o rows

\* A front end calls ScanService.scan for a run with configuration cfg.
ScanStart(front, cfg) ==
  /\ scanning.pc = "idle"
  /\ scanning' = [NoScan EXCEPT !.pc = "walk", !.cfg = cfg, !.args = ScanArgs(front, cfg)]
  /\ UNCHANGED <<runVars, runs, resumed, window, store>>

\* Worker.request_stop while the worker is in scan.
ScanRequestStop ==
  /\ scanning.pc = "walk" /\ scanning.args.stop_flag /\ ~scanning.stop
  /\ scanning' = [scanning EXCEPT !.stop = TRUE]
  /\ UNCHANGED <<runVars, runs, resumed, window, store>>

\* One directory entry e: iter_files drops it or yields it, and scan runs one iteration
\* of its loop on it.
WalkFile(e) ==
  LET a == scanning.args
      path == scanning.n + 1
      reason == RejectReason(a, e)
      row == ScanRow(path, e)
      batch == Append(scanning.rows, row)
      S == [scanning EXCEPT !.n = path, !.cur = e, !.skips = <<>>]
  IN
  /\ scanning.pc = "walk" /\ scanning.n < MaxWalk
  /\ scanning' =
       IF ~Yielded(e) THEN S
       ELSE IF a.stop_flag /\ scanning.stop
         THEN [S EXCEPT !.skips = Skipped(a, <<"stop_flag">>), !.pc = "flush"]
       ELSE IF reason # "" THEN [S EXCEPT !.skips = Skipped(a, <<reason>>)]
       ELSE IF e.mtime # "ok"
         THEN [S EXCEPT !.skips = Skipped(a, <<"scan_exception">>),
                        !.errs = Append(@, [phase |-> "SCAN", source_path |-> path])]
       ELSE [S EXCEPT !.skips = Skipped(a, RowSkips(e, row)),
                      !.count = @ + 1,
                      !.rows = IF Len(batch) >= BatchSize THEN <<>> ELSE batch,
                      !.stored = IF Len(batch) >= BatchSize THEN @ \o batch ELSE @]
  /\ UNCHANGED <<runVars, runs, resumed, window, store>>

\* The walk has no further entry.
WalkEnd ==
  /\ scanning.pc = "walk"
  /\ scanning' = [scanning EXCEPT !.pc = "flush", !.cur = NoEntry, !.skips = <<>>]
  /\ UNCHANGED <<runVars, runs, resumed, window, store>>

\* ScanService.scan after its loop: the last flush, and the return.
ScanReturn ==
  /\ scanning.pc = "flush"
  /\ scanning' = [scanning EXCEPT !.pc = "done", !.rows = <<>>,
                                  !.stored = FinalFlush(scanning.rows, @)]
  /\ UNCHANGED <<runVars, runs, resumed, window, store>>

NextScan ==
  \/ \E front \in {"CLI", "GUI"}, cfg \in ScanConfigs : ScanStart(front, cfg)
  \/ ScanRequestStop
  \/ \E e \in Entries : WalkFile(e)
  \/ WalkEnd
  \/ ScanReturn

SpecScan == InitStore /\ [][NextScan]_vars

(* ---------------- hash_all with its threads taken one by one ------------- *)
\* Variant: hash_all as called without a stop_flag.
stop_flag_none == FALSE

\* hash_all's poll "stop_flag and stop_flag()": Worker passes its stop_flag, cli-v2.py
\* passes none (and has no way to set the flag).
stop_flag == stop

\* Variant of _task: the worker stores the fingerprint itself.
task_writing(ok) == IF ok THEN "writing" ELSE "err"

\* The state a worker's future is left in by _task: it computes the fingerprint and
\* returns it, or raises.
task(ok) == IF ok THEN "ok" ELSE "err"

TasksIn(S) == {f \in DOMAIN tasks : tasks[f] \in S}

\* The row whose result the coordinating thread is applying.
Taken == CHOOSE f \in DOMAIN tasks : tasks[f] = "taken"

\* hash_all lines 34-48: the rows were listed; nothing to do without rows.
HashStart ==
  /\ pc = "hash"
  /\ IF hashTodo = {}
       THEN pc' = "plan" /\ tasks' = <<>>
       ELSE pc' = "h_submit" /\ tasks' = [f \in hashTodo |-> "listed"]
  /\ UNCHANGED <<auxVars, srcFiles, disk, files, hash_groups, plan_items, errors, run_status, mode,
                 dry_run, stop, hashTodo, items, idx, attempt, retries, error_policy,
                 lastOutcome, fresh, faults, everVerified>>

\* One iteration of the submission loop (lines 51-55): poll, then submit the next row;
\* the loop ends at its last row or when the poll sees the flag.
Submit ==
  /\ pc = "h_submit"
  /\ IF stop_flag \/ TasksIn({"listed"}) = {}
       THEN pc' = "h_collect" /\ UNCHANGED tasks
       ELSE /\ tasks' = [tasks EXCEPT ![Min(TasksIn({"listed"}))] = "running"]
            /\ UNCHANGED pc
  /\ UNCHANGED <<auxVars, srcFiles, disk, files, hash_groups, plan_items, errors, run_status, mode,
                 dry_run, stop, hashTodo, items, idx, attempt, retries, error_policy,
                 lastOutcome, fresh, faults, everVerified>>

\* A pool thread finishes _task for row f.
TaskStep(f, ok) ==
  /\ pc \in HashPcs
  /\ f \in TasksIn({"running"})
  /\ IF ok THEN UNCHANGED faults ELSE faults < MaxFaults /\ faults' = faults + 1
  /\ tasks' = [tasks EXCEPT ![f] = task(ok)]
  /\ UNCHANGED <<auxVars, srcFiles, disk, files, hash_groups, plan_items, errors, run_status, mode,
                 dry_run, stop, pc, hashTodo, items, idx, attempt, retries, error_policy,
                 lastOutcome, fresh, everVerified>>

\* One iteration of the as_completed loop up to the try (lines 57-66): a finished future
\* is yielded, the flag is polled, the result is taken or the loop is left.
Collect(f) ==
  /\ pc = "h_collect"
  /\ f \in TasksIn({"ok", "err"})
  /\ IF stop_flag
       THEN pc' = "h_drain" /\ UNCHANGED tasks
       ELSE /\ tasks' = [tasks EXCEPT ![f] = "taken"]
            /\ pc' = IF tasks[f] = "ok" THEN "h_set" ELSE "h_err"
  /\ UNCHANGED <<auxVars, srcFiles, disk, files, hash_groups, plan_items, errors, run_status, mode,
                 dry_run, stop, hashTodo, items, idx, attempt, retries, error_policy,
                 lastOutcome, fresh, faults, everVerified>>

\* The as_completed loop ends: every submitted future was yielded.
CollectEnd ==
  /\ pc = "h_collect"
  /\ TasksIn({"running", "ok", "err"}) = {}
  /\ pc' = "h_drain"
  /\ UNCHANGED <<auxVars, srcFiles, disk, files, hash_groups, plan_items, errors, run_status, mode,
                 dry_run, stop, hashTodo, tasks, items, idx, attempt, retries, error_policy,
                 lastOutcome, fresh, faults, everVerified>>

\* file_repo.set_sha256 (line 69).
WriteSha ==
  /\ pc = "h_set"
  /\ files' = set_sha256(Taken, sha256_file(srcFiles[Taken].content))
  /\ pc' = "h_group"
  /\ UNCHANGED <<auxVars, srcFiles, disk, hash_groups, plan_items, errors, run_status, mode,
                 dry_run, stop, hashTodo, tasks, items, idx, attempt, retries, error_policy,
                 lastOutcome, fresh, faults, everVerified>>

\* hash_group_repo.upsert_group (line 70), end of the iteration.
WriteGroup ==
  /\ pc = "h_group"
  /\ hash_groups' = upsert_group(files[Taken].sha256)
  /\ tasks' = [tasks EXCEPT ![Taken] = "consumed"]
  /\ pc' = "h_collect"
  /\ UNCHANGED <<auxVars, srcFiles, disk, files, plan_items, errors, run_status, mode,
                 dry_run, stop, hashTodo, items, idx, attempt, retries, error_policy,
                 lastOutcome, fresh, faults, everVerified>>

\* fut.result() raised: error_repo.add (lines 72-78), end of the iteration.
WriteError ==
  /\ pc = "h_err"
  /\ errors' = hash_error(Taken)
  /\ tasks' = [tasks EXCEPT ![Taken] = "consumed"]
  /\ pc' = "h_collect"
  /\ UNCHANGED <<auxVars, srcFiles, disk, files, hash_groups, plan_items, run_status, mode,
                 dry_run, stop, hashTodo, items, idx, attempt, retries, error_policy,
                 lastOutcome, fresh, faults, everVerified>>

\* The with block is left: the pool is shut down once its running tasks are finished, and
\* hash_all returns.
HashExit ==
  /\ pc = "h_drain"
  /\ TasksIn({"running"}) = {}
  /\ tasks' = <<>>
  /\ hashTodo' = {}
  /\ pc' = "plan"
  /\ UNCHANGED <<auxVars, srcFiles, disk, files, hash_groups, plan_items, errors, run_status, mode,
                 dry_run, stop, items, idx, attempt, retries, error_policy,
                 lastOutcome, fresh, faults, everVerified>>

\* Scan, hash and plan pipelines (the GUI's on a new run, cli-v2.py's with dry_run on a
\* new or resumed one) with the threads of hash_all interleaved.
NextHash ==
  \/ GuiStart
  \/ CliStart(TRUE)
  \/ RequestStop
  \/ Scan(ScanTime)
  \/ HashStart
  \/ Submit
  \/ \E f \in FileIds, ok \in BOOLEAN : TaskStep(f, ok)
  \/ \E f \in FileIds : Collect(f)
  \/ CollectEnd
  \/ WriteSha
  \/ WriteGroup
  \/ WriteError
  \/ HashExit
  \/ BuildPlan
  \/ PlanReturn

SpecHash == Init /\ [][NextHash]_vars

\* ExecutorService.execute with its parameters retries and error_policy left open, driven
\* by one uninterrupted pipeline of cli-v2.py.
InitRetry ==
  /\ InitCommon
  /\ retries \in 0..MaxRetries
  /\ error_policy \in Policies

NextRetry ==
  \/ CliStart(FALSE)
  \/ Scan(ScanTime)
  \/ \E f \in hashTodo, ok \in BOOLEAN : HashApply(f, ok)
  \/ HashReturn
  \/ BuildPlan
  \/ CliExecStart
  \/ ExecBegin
  \/ \E o \in Outcomes : ExecAttempt(o)
  \/ ExecReturn

\* The while loop of execute runs on: an attempt in progress does end.
SpecRetry == InitRetry /\ [][NextRetry]_vars /\ WF_vars(\E o \in Outcomes : ExecAttempt(o))

TypeOK ==
  /\ pc \in {"idle", "scan", "hash", "plan", "planned", "exec", "attempt"} \cup HashPcs \cup {"completed"}
  /\ DOMAIN tasks \subseteq FileIds
  /\ \A f \in DOMAIN tasks : tasks[f] \in {"listed", "running", "ok", "err", "taken", "consumed"}
  /\ mode \in {"NONE", "CLI", "GUI"}
  /\ faults \in 0..MaxFaults
  /\ \A i \in DOMAIN plan_items : plan_items[i].status \in {"PENDING", "COPYING", "VERIFIED", "FAILED"}

(* ------------------------------ properties ----------------------------- *)
ItemsOfFile(f) == {i \in DOMAIN plan_items : plan_items[i].file_id = f}

Fingerprints == {files[f].sha256 : f \in FileIds} \ {NULL}

Members(h) == {f \in FileIds : files[f].sha256 = h}

\* The destination a primary is given before collision resolution.
ComputedPath(i) ==
  LET row == files[plan_items[i].file_id]
  IN dest_rel_path(row.media_type, row.chosen_date, row.filename)

C4_UniqueDestinations ==
  pc = "planned" =>
    /\ \A i, j \in DOMAIN plan_items :
         i # j => plan_items[i].dest_path # plan_items[j].dest_path
    /\ \A i \in DOMAIN plan_items :
         plan_items[i].action = "COPY" => plan_items[i].dest_path \notin DOMAIN disk

\* C5: after build_plan, of two primaries with the same computed folder and file name the
\* one with the higher file id has the strictly greater collision suffix.
C5_IncreasingSuffixes ==
  pc = "planned" =>
    \A i, j \in DOMAIN plan_items :
      ( /\ plan_items[i].action = "COPY"
        /\ plan_items[j].action = "COPY"
        /\ plan_items[i].file_id < plan_items[j].file_id
        /\ ComputedPath(i) = ComputedPath(j) )
      => plan_items[j].collision_suffix > plan_items[i].collision_suffix

\* C10: after build_plan there is exactly one PlanItem per FileRecord and every PlanItem is
\* PENDING, whatever the plan was before.
C10_FullRecompute ==
  pc = "planned" =>
    /\ Len(plan_items) = Cardinality(FileIds)
    /\ \A f \in FileIds : Cardinality(ItemsOfFile(f)) = 1
    /\ \A i \in DOMAIN plan_items : plan_items[i].status = "PENDING"

\* A plan is rebuilt after an item of the previous plan had been VERIFIED.
C10_Witness ==
  /\ pc = "planned"
  /\ everVerified # {}
  /\ Len(plan_items) >= 1

(* ------------------------- properties of Execute ----------------------- *)
\* The step is one pass of the while loop of execute (one call of copy_stream).
IsAttemptStep == pc = "attempt" /\ pc' # "idle"

\* The step ends the while loop for the current item.
IsItemEnd == pc = "attempt" /\ pc' = "exec"

CurrentId == items[idx].plan_item_id
CurrentFile == items[idx].file_id
CurrentDest == items[idx].dest_path

\* The step marks the current item VERIFIED.
MarksVerified == IsItemEnd /\ plan_items'[CurrentId].status = "VERIFIED"

\* The step marks the current item FAILED.
MarksFailed == IsItemEnd /\ plan_items'[CurrentId].status = "FAILED"

\* Execute has gone through its whole selection.
PassDone == pc = "exec" /\ idx > Len(items)

\* C1: a step of Execute marks an item VERIFIED only if the source FileRecord has a stored
\* fingerprint and the fingerprint of the destination file equals it.
C1_VerifiedOnlyIfCompared ==
  [][MarksVerified =>
       /\ files[CurrentFile].sha256 # NULL
       /\ CurrentDest \in DOMAIN disk'
       /\ sha256_file(disk'[CurrentDest]) = files[CurrentFile].sha256]_vars

\* C2: when Execute has gone through its whole selection, the destination of every VERIFIED
\* item holds a file with the fingerprint of the item's source file. Stated for the runs in
\* which nothing went wrong: every hash and every copy succeeded, nothing was stopped or
\* killed.
C2_VerifiedDestinationsMatch ==
  (PassDone /\ faults = 0) =>
    \A i \in DOMAIN plan_items :
      plan_items[i].status = "VERIFIED" =>
        /\ plan_items[i].dest_path \in DOMAIN disk
        /\ sha256_file(disk[plan_items[i].dest_path])
             = sha256_file(srcFiles[plan_items[i].file_id].content)

\* C6: a pipeline started by cli-v2.py never calls copy_stream for a source file that an
\* earlier Execute had marked VERIFIED.
C6_ResumeDoesNotRecopy ==
  [][(IsAttemptStep /\ mode = "CLI") => CurrentFile \notin {e[1] : e \in everVerified}]_vars

\* The selection holds every plan item at most once.
SelectionDistinct ==
  \A k, l \in DOMAIN items : items[k].plan_item_id = items[l].plan_item_id => k = l

\* C7: while Execute runs on the stored plan, no item still to be processed is VERIFIED,
\* every item that is not VERIFIED is in the selection (once, and still ahead while it is
\* PENDING or COPYING), a finished pass leaves every item VERIFIED or FAILED, and the
\* status an item ends with is decided by how its last copy went, not by the status it
\* had when selected.
C7_RerunExecute ==
  /\ [](pc \in {"exec", "attempt"} =>
          /\ SelectionDistinct
          /\ \A k \in idx..Len(items) :
               plan_items[items[k].plan_item_id].status # "VERIFIED"
          /\ \A i \in DOMAIN plan_items :
               /\ plan_items[i].status # "VERIFIED" =>
                    \E k \in DOMAIN items : items[k].plan_item_id = i
               /\ plan_items[i].status \in {"PENDING", "COPYING"} =>
                    \E k \in idx..Len(items) : items[k].plan_item_id = i
          /\ PassDone =>
               \A i \in DOMAIN plan_items : plan_items[i].status \in {"VERIFIED", "FAILED"})
  /\ [][IsItemEnd =>
          plan_items'[CurrentId].status =
            IF /\ lastOutcome' \in {"ok", "corrupt"}
               /\ ~Mismatch(items[idx].source_sha256, sha256_file(disk'[CurrentDest]))
              THEN "VERIFIED" ELSE "FAILED"]_vars

\* Execute was started again on the stored plan: an item VERIFIED by an earlier pass was
\* left out, an item left COPYING by the killed pass was taken up and the pass is done.
C7_Witness ==
  /\ mode = "GUI"
  /\ PassDone
  /\ \E i \in DOMAIN plan_items :
       /\ plan_items[i].status = "VERIFIED"
       /\ \A k \in DOMAIN items : items[k].plan_item_id # i
  /\ \E k \in DOMAIN items : items[k].status = "COPYING"

\* C8: a step that marks an item FAILED stores an error code and appends exactly one
\* ErrorRecord, VERIFY_FAIL / VERIFY when the copy went through and the fingerprints
\* differ, COPY_FAIL / COPY when the copy raised; and an attempt whose destination
\* fingerprint differs from the fingerprint stored for the source never marks the item
\* VERIFIED (so an item that differs on every attempt ends FAILED).
C8_FinalFailure ==
  [][/\ MarksFailed =>
          LET code == IF lastOutcome' = "corrupt" THEN "VERIFY_FAIL" ELSE "COPY_FAIL"
              phase == IF lastOutcome' = "corrupt" THEN "VERIFY" ELSE "COPY"
          IN /\ lastOutcome' \in {"corrupt", "io_open", "io_write"}
             /\ lastOutcome' = "corrupt" =>
                  sha256_file(disk'[CurrentDest]) # files[CurrentFile].sha256
             /\ plan_items'[CurrentId].error_code = code
             /\ errors' = Append(errors, [phase |-> phase, code |-> code, file_id |-> CurrentFile])
     /\ (MarksVerified /\ files[CurrentFile].sha256 # NULL) =>
          sha256_file(disk'[CurrentDest]) = files[CurrentFile].sha256]_vars

\* An item with a stored fingerprint whose copy came out different on each of its three
\* attempts has just been marked FAILED with VERIFY_FAIL and logged in phase VERIFY.
C8_Witness ==
  /\ pc = "exec" /\ idx > 1
  /\ attempt = DefaultRetries + 1
  /\ lastOutcome = "corrupt"
  /\ files[items[idx - 1].file_id].sha256 # NULL
  /\ plan_items[items[idx - 1].plan_item_id].status = "FAILED"
  /\ plan_items[items[idx - 1].plan_item_id].error_code = "VERIFY_FAIL"
  /\ Len(errors) >= 1
  /\ errors[Len(errors)] = [phase |-> "VERIFY", code |-> "VERIFY_FAIL",
                            file_id |-> items[idx - 1].file_id]

\* The number of attempts execute allows for one item.
AttemptLimit == IF error_policy = "RETRY_THEN_SKIP" THEN retries + 1 ELSE 1

\* C9: an item is attempted at most retries+1 times under RETRY_THEN_SKIP and exactly once
\* under any other policy; it is attempted again only after a failed attempt, is FAILED
\* only when the last allowed attempt has failed, and the loop of an item ends.
C9_BoundedRetries ==
  /\ [](/\ attempt <= AttemptLimit
        /\ pc = "attempt" =>
             /\ attempt < AttemptLimit
             /\ attempt >= 1 => lastOutcome \in {"corrupt", "io_open", "io_write"}
        /\ (pc = "exec" /\ idx > 1) =>
             /\ attempt >= 1
             /\ plan_items[items[idx - 1].plan_item_id].status \in {"VERIFIED", "FAILED"}
             /\ plan_items[items[idx - 1].plan_item_id].status = "FAILED" =>
                  attempt = AttemptLimit)
  /\ [][IsAttemptStep => attempt' = attempt + 1]_vars
  /\ (pc = "attempt" ~> pc # "attempt")

\* Under RETRY_THEN_SKIP with at least one retry an item has just been marked FAILED after
\* its last allowed attempt.
C9_Witness ==
  /\ error_policy = "RETRY_THEN_SKIP"
  /\ retries >= 1
  /\ pc = "exec" /\ idx > 1
  /\ attempt = retries + 1
  /\ plan_items[items[idx - 1].plan_item_id].status = "FAILED"

IsPlanFailure == pc = "plan" /\ pc' = "idle"

\* C12: a build_plan that raises leaves the persisted PlanItems of the run as they were
\* before the call, and the caller does not go on to mark the run PLANNED.
C12_FailedBuildKeepsPlan ==
  [][IsPlanFailure => (plan_items' = plan_items /\ run_status' = run_status)]_vars

\* The step is ScanService.scan.
IsScan == pc = "scan" /\ pc' = "hash"

\* The descriptive fields of FileRecord i are the ones of the source file at its path.
Describes(row, i) ==
  /\ row.filename = srcFiles[i].name
  /\ row.media_type = classify_media(srcFiles[i].name.ext)
  /\ row.chosen_date = srcFiles[i].mdate

\* C13: a scan leaves one FileRecord per walked source path; a FileRecord that existed keeps
\* its fingerprint and its creation timestamp (its file id is its position) and takes the
\* descriptive fields of the file as it is now; a scan of a tree that did not change since
\* the previous scan leaves the FileRecords as they are.
C13_RescanKeepsFingerprint ==
  [][IsScan =>
       /\ DOMAIN files' = DOMAIN srcFiles
       /\ \A i \in DOMAIN files' : Describes(files'[i], i)
       /\ \A i \in DOMAIN files :
            /\ i \in DOMAIN files'
            /\ files'[i].sha256 = files[i].sha256
            /\ files'[i].created_at = files[i].created_at
       /\ (DOMAIN files = DOMAIN srcFiles /\ \A i \in DOMAIN files : Describes(files[i], i))
            => files' = files]_vars

\* A file that had been scanned and fingerprinted was rewritten and scanned again: its
\* FileRecord has the new date and still the fingerprint of the old bytes.
C13_Witness ==
  /\ pc = "hash"
  /\ \E i \in DOMAIN files :
       /\ files[i].chosen_date = TouchedDate
       /\ files[i].sha256 # NULL
       /\ files[i].sha256 # sha256_file(srcFiles[i].content)

\* C14: hash_all takes up only FileRecords without a fingerprint, and no step of it changes
\* a fingerprint that is there; with every file fingerprinted it has nothing to do.
C14_HashOnlyMissing ==
  /\ [](pc = "hash" => \A f \in hashTodo : files[f].sha256 = NULL)
  /\ [][pc = "hash" =>
          \A f \in DOMAIN files :
            files[f].sha256 # NULL => (f \in DOMAIN files' /\ files'[f].sha256 = files[f].sha256)]_vars

\* hash_all runs again on a run where one file has a fingerprint (of bytes that were
\* rewritten since) and another has none: only the second one is taken up.
C14_Witness ==
  /\ pc = "hash"
  /\ hashTodo # {}
  /\ \E f \in DOMAIN files :
       /\ f \notin hashTodo
       /\ files[f].sha256 # NULL
       /\ files[f].sha256 # sha256_file(srcFiles[f].content)

\* C15: a run never has two HashGroups with the same fingerprint, and the fingerprint of
\* every FileRecord whose hash result was applied has a HashGroup of the run.
C15_OneGroupPerFingerprint ==
  /\ \A g, h \in DOMAIN hash_groups :
       hash_groups[g].sha256 = hash_groups[h].sha256 => g = h
  /\ \A f \in DOMAIN files :
       files[f].sha256 # NULL =>
         \E g \in DOMAIN hash_groups : hash_groups[g].sha256 = files[f].sha256

\* Two files with the same bytes were hashed: the second result found the group of the first.
C15_Witness ==
  /\ \E f, g \in DOMAIN files :
       f # g /\ files[f].sha256 # NULL /\ files[f].sha256 = files[g].sha256
  /\ Len(hash_groups) = 1

\* The coordinating thread is inside a store call of hash_all.
MainWriting == pc \in {"h_set", "h_group", "h_err"}

\* The coordinating thread of hash_all; a pool thread is named by the row of its task.
MainThread == 0

\* The threads that are inside a store write.
Writers ==
  (IF MainWriting THEN {MainThread} ELSE {}) \cup {f \in DOMAIN tasks : tasks[f] = "writing"}

StoreChanged == files' # files \/ hash_groups' # hash_groups \/ errors' # errors

\* C16: during hash_all at most one thread is inside a store write and it is the
\* coordinating thread; a worker's step changes its future only; every change of a
\* fingerprint, a HashGroup or an ErrorRecord is a step of the coordinating thread inside
\* one store call.
C16_SingleWriter ==
  /\ [](Cardinality(Writers) <= 1 /\ Writers \subseteq {MainThread})
  /\ [][(pc \in HashPcs /\ StoreChanged) => (MainWriting /\ pc' # pc)]_vars

\* The coordinating thread is between its two writes for a row while the task of a row
\* submitted earlier is still running: results are applied as they complete.
C16_Witness ==
  /\ pc = "h_group"
  /\ \E f \in DOMAIN tasks : f < Taken /\ tasks[f] = "running"

\* C17: in a step of hash_all taken when the flag is set and the coordinating thread is at a
\* poll or past the loops, nothing is submitted, no fingerprint, HashGroup or ErrorRecord
\* is written, and no result is taken up.
C17_StopDiscardsResults ==
  [][(pc \in {"h_submit", "h_collect", "h_drain"} /\ stop) =>
       /\ ~StoreChanged
       /\ TasksIn({"listed"}) \subseteq {f \in DOMAIN tasks' : tasks'[f] = "listed"} \/ tasks' = <<>>
       /\ pc' \notin {"h_set", "h_group", "h_err"}
       /\ pc' # "h_submit" \/ pc = "h_submit"]_vars

\* The flag was seen, hash_all is leaving, and a task that finished with a fingerprint was
\* not applied.
C17_Witness ==
  /\ pc = "h_drain"
  /\ stop
  /\ \E f \in DOMAIN tasks : tasks[f] = "ok" /\ files[f].sha256 = NULL
  /\ \E f \in DOMAIN tasks : tasks[f] = "listed"

HashErrorsOf(f) == {e \in DOMAIN errors : errors[e].phase = "HASH" /\ errors[e].file_id = f}

\* C18: when the task of a row failed, hash_all adds one ErrorRecord of phase HASH for that
\* row, leaves every fingerprint and HashGroup as it is and goes on with the loop, the
\* other futures untouched; when hash_all leaves without having been stopped, every row it
\* had listed was consumed and has a fingerprint with its HashGroup, or has no fingerprint
\* and a HASH ErrorRecord.
C18_HashFailureIsRecorded ==
  /\ [][(pc = "h_err" /\ pc' # pc) =>
          /\ Len(errors') = Len(errors) + 1
          /\ errors'[Len(errors')].phase = "HASH"
          /\ errors'[Len(errors')].file_id = Taken
          /\ SubSeq(errors', 1, Len(errors)) = errors
          /\ files' = files /\ hash_groups' = hash_groups
          /\ files[Taken].sha256 = NULL
          /\ pc' = "h_collect"
          /\ \A g \in DOMAIN tasks \ {Taken} : tasks'[g] = tasks[g]]_vars
  /\ []((pc = "h_drain" /\ ~stop) =>
          \A f \in hashTodo :
            /\ tasks[f] = "consumed"
            /\ \/ /\ files[f].sha256 # NULL
                  /\ \E g \in DOMAIN hash_groups : hash_groups[g].sha256 = files[f].sha256
               \/ /\ files[f].sha256 = NULL
                  /\ HashErrorsOf(f) # {})

\* hash_all leaves, not stopped, after the task of one row failed and the result of
\* another row was applied.
C18_Witness ==
  /\ pc = "h_drain"
  /\ ~stop
  /\ \E f, g \in hashTodo :
       /\ files[f].sha256 = NULL /\ Cardinality(HashErrorsOf(f)) = 1
       /\ files[g].sha256 # NULL

RollbackErrors(errs) == {e \in DOMAIN errs : errs[e].phase = "ROLLBACK"}

\* C19: once the run is ROLLED_BACK and no deletion has failed, no file is left at a
\* destination path at which the run has marked an item VERIFIED, under whichever plan
\* and in whichever Execute that was.
C19_RollbackRemovesVerified ==
  (run_status = "ROLLED_BACK" /\ RollbackErrors(errors) = {}) =>
    \A v \in everVerified : v[2] \notin DOMAIN disk

\* The step is RollbackService.rollback.
IsRollback == pc = "completed" /\ pc' = "completed"

VerifiedItems == {i \in DOMAIN plan_items : plan_items[i].status = "VERIFIED"}

\* C20: a rollback appends ErrorRecords of phase ROLLBACK only, one for each VERIFIED item
\* whose destination file is still there afterwards; the destination of every other VERIFIED
\* item is gone; the run is ROLLED_BACK whatever failed, and no PlanItem is changed.
C20_RollbackNeverHalts ==
  [][IsRollback =>
       LET left == {i \in VerifiedItems : plan_items[i].dest_path \in DOMAIN disk'}
           new  == SubSeq(errors', Len(errors) + 1, Len(errors'))
       IN /\ run_status' = "ROLLED_BACK"
          /\ plan_items' = plan_items
          /\ SubSeq(errors', 1, Len(errors)) = errors
          /\ Len(new) = Cardinality(left)
          /\ \A k \in DOMAIN new : new[k].phase = "ROLLBACK"
          /\ {new[k].file_id : k \in DOMAIN new} = {plan_items[i].file_id : i \in left}
          /\ DOMAIN disk' \subseteq DOMAIN disk
          /\ \A p \in DOMAIN disk' : disk'[p] = disk[p]]_vars

\* A rollback in which one deletion failed: its error is logged, the destination of
\* another VERIFIED item is gone and the run is ROLLED_BACK.
C20_Witness ==
  /\ pc = "completed"
  /\ run_status = "ROLLED_BACK"
  /\ Cardinality(RollbackErrors(errors)) = 1
  /\ \E i, j \in VerifiedItems :
       /\ plan_items[i].dest_path \in DOMAIN disk
       /\ plan_items[j].dest_path \notin DOMAIN disk

(* ------------- properties of the run status, resume and scan ------------- *)
\* The order of the run statuses: CREATED, SCANNED, PLANNED, RUNNING (PAUSED), then
\* COMPLETED or FAILED, then ROLLED_BACK.
StatusRank(st) ==
  CASE st = "CREATED" -> 0
    [] st = "SCANNED" -> 1
    [] st = "PLANNED" -> 2
    [] st \in {"RUNNING", "PAUSED"} -> 3
    [] st \in {"COMPLETED", "FAILED"} -> 4
    [] OTHER -> 5

\* C21: no step moves the run status backwards in the order CREATED, SCANNED, PLANNED,
\* RUNNING, COMPLETED or FAILED, ROLLED_BACK; RUNNING is entered from PLANNED only,
\* ROLLED_BACK by a rollback only, and PAUSED is never written.
C21_StatusOrder ==
  [][/\ StatusRank(run_status') >= StatusRank(run_status)
     /\ (run_status' = "RUNNING" /\ run_status # "RUNNING") => run_status = "PLANNED"
     /\ (run_status' = "ROLLED_BACK" /\ run_status # "ROLLED_BACK") => IsRollback
     /\ run_status' # "PAUSED"]_vars

\* C22: a build_plan that raises ends the pipeline with the run FAILED.
C22_PhaseFailureSetsFailed ==
  [][IsPlanFailure => run_status' = "FAILED"]_vars

\* C30: while the run is COMPLETED every PlanItem is VERIFIED or FAILED.
C30_CompletedMeansTerminal ==
  run_status = "COMPLETED" =>
    \A i \in DOMAIN plan_items : plan_items[i].status \in {"VERIFIED", "FAILED"}

\* C29: with the flag set at the top of the item loop, the step taken changes no PlanItem
\* and no destination file and begins no item; an item that was begun leaves its while
\* loop only as VERIFIED or FAILED, whether the flag is set or not, and goes on while it
\* is set; outside the while loop no item is COPYING.
C29_StopBetweenItems ==
  /\ [][(pc = "exec" /\ stop) =>
          (plan_items' = plan_items /\ disk' = disk /\ pc' # "attempt")]_vars
  /\ [][pc = "attempt" =>
          \/ pc' = "attempt" /\ plan_items'[CurrentId].status = "COPYING"
          \/ pc' = "exec" /\ plan_items'[CurrentId].status \in {"VERIFIED", "FAILED"}]_vars
  /\ [](pc = "attempt" => ENABLED ExecAttempt("ok"))
  /\ [](pc # "attempt" => \A i \in DOMAIN plan_items : plan_items[i].status # "COPYING")

\* The flag was set while the first item was being copied: that item is VERIFIED or FAILED,
\* the next one is still PENDING and Execute is about to return.
C29_Witness ==
  /\ pc = "exec"
  /\ stop
  /\ idx = 2
  /\ Len(items) >= 2
  /\ attempt >= 1
  /\ plan_items[items[1].plan_item_id].status \in {"VERIFIED", "FAILED"}
  /\ plan_items[items[2].plan_item_id].status = "PENDING"

Max(S) == CHOOSE x \in S : \A y \in S : x >= y

\* C23: a resume selects the incomplete run that was created last, and no run when there
\* is no incomplete run.
C23_ResumeLatestIncomplete ==
  [][resumed' # resumed =>
       resumed' = IF IncompleteRuns(runs) = {} THEN NULL ELSE Max(IncompleteRuns(runs))]_vars

\* The workers that are in run_pipeline or execute_plan on run r.
WorkersOn(r) ==
  {p \in Procs : window[p].worker.kind # "none" /\ window[p].worker.pos # "done"
                 /\ window[p].worker.run = r}

\* C24: no two pipeline workers are running on the same run at the same time.
C24_OneWorkerPerRun == \A r \in DOMAIN runs : Cardinality(WorkersOn(r)) <= 1

\* A step of scan on the next directory entry, which is scanning'.cur.
IsWalk == scanning.pc = "walk" /\ scanning'.n = scanning.n + 1

\* The class is enabled by the configuration of the run.
ClassEnabled(cfg, media_type) ==
  CASE media_type = "PHOTO" -> cfg.include_photos
    [] media_type = "VIDEO" -> cfg.include_videos
    [] media_type = "RAW" -> cfg.include_raw
    [] OTHER -> cfg.include_other

\* C25: a walked file that is read without error gets a FileRecord if and only if it has
\* the minimum size, its extension is not excluded and its class is enabled by the
\* configuration; a file the loop rejects produces a skip callback when one is given.
C25_ScanAcceptsEnabled ==
  [][(IsWalk /\ ~scanning.stop /\ scanning'.cur.attr = "plain"
      /\ scanning'.cur.stat = "ok" /\ scanning'.cur.mtime = "ok") =>
       /\ (scanning'.count = scanning.count + 1) <=>
            /\ scanning'.cur.size >= scanning.cfg.min_file_size
            /\ scanning'.cur.ext \notin EXCLUDED_EXTS
            /\ ClassEnabled(scanning.cfg, classify_media(scanning'.cur.ext))
       /\ (scanning'.count = scanning.count /\ Yielded(scanning'.cur) /\ scanning.args.skip_cb)
            => scanning'.skips # <<>>]_vars

\* The row of the entry handled last, when it was accepted.
LastRow == IF scanning.rows # <<>> THEN scanning.rows[Len(scanning.rows)]
           ELSE scanning.stored[Len(scanning.stored)]

\* C26: every FileRecord that scan builds has a chosen date and a provenance tag; the tag
\* is TAKEN_EXIF (photo, raw) or CREATED_META (video) with the capture date exactly when
\* the provider gave a capture datetime that parses, and MTIME with the modification date
\* in every other case.
C26_ChosenDateProvenance ==
  [][(IsWalk /\ scanning'.count = scanning.count + 1) =>
       LET e == scanning'.cur
           r == LastRow'
           captured == e.meta = "valid" /\ classify_media(e.ext) # "OTHER"
       IN /\ r.source_path = scanning'.n
          /\ r.date_source = IF ~captured THEN "MTIME"
                             ELSE IF classify_media(e.ext) = "VIDEO" THEN "CREATED_META"
                             ELSE "TAKEN_EXIF"
          /\ r.chosen_date = IF captured THEN <<2023, 7, 14>> ELSE <<2024, 1, 15>>]_vars

C26_Witness ==
  /\ scanning.pc = "walk" /\ scanning.count = 2
  /\ scanning.cur.ext = ".mp4" /\ scanning.cur.meta = "garbage"
  /\ scanning.stored[2].source_path = scanning.n /\ scanning.stored[2].date_source = "MTIME"
  /\ scanning.stored[1].date_source = "TAKEN_EXIF"

\* C27: a file whose processing raises (os.stat fails, or anything after it) gets an
\* ErrorRecord with phase SCAN and no FileRecord, and the scan goes on.
C27_ScanErrorRecorded ==
  [][(IsWalk /\ ~scanning.stop /\ Yielded(scanning'.cur)
      /\ \/ scanning'.cur.stat # "ok"
         \/ RejectReason(scanning.args, scanning'.cur) = "" /\ scanning'.cur.mtime # "ok") =>
       /\ scanning'.errs = Append(scanning.errs, [phase |-> "SCAN", source_path |-> scanning'.n])
       /\ scanning'.count = scanning.count
       /\ scanning'.rows = scanning.rows /\ scanning'.stored = scanning.stored
       /\ scanning'.pc = "walk"]_vars

\* The FileRecords in the batch or in the store.
ScanRows(S) == {S.rows[i] : i \in DOMAIN S.rows} \cup {S.stored[i] : i \in DOMAIN S.stored}

\* C28: the stop flag is polled before each file and a file met after it was set is not
\* processed, nor any file after it; no accepted record is ever lost, the batch is
\* written whenever it holds BatchSize records, and when scan has returned, normally or
\* after a stop, every accepted file has its FileRecord in the store.
C28_StopAndFlush ==
  /\ [][(IsWalk /\ scanning.stop /\ Yielded(scanning'.cur)) =>
          /\ scanning'.pc = "flush"
          /\ scanning'.count = scanning.count /\ scanning'.errs = scanning.errs
          /\ scanning'.rows = scanning.rows /\ scanning'.stored = scanning.stored]_vars
  /\ [][scanning.pc \in {"flush", "done"} =>
          (scanning'.n = scanning.n /\ scanning'.count = scanning.count)]_vars
  /\ [][(IsWalk /\ scanning'.count = scanning.count + 1) =>
          \E r \in ScanRows(scanning') : r.source_path = scanning'.n]_vars
  /\ [][scanning.pc # "idle" => ScanRows(scanning) \subseteq ScanRows(scanning')]_vars
  /\ [](Len(scanning.rows) < BatchSize)
  /\ [](scanning.pc = "done" =>
          /\ scanning.rows = <<>>
          /\ Len(scanning.stored) = scanning.count
          /\ Cardinality(ScanRows(scanning)) = scanning.count)

C28_Witness ==
  /\ scanning.pc = "done" /\ scanning.stop /\ scanning.cur # NoEntry
  /\ scanning.count = 1 /\ Len(scanning.stored) = 1

(* ---------------- properties of the plan, the store and the purge -------------- *)
\* C31: a pipeline started with dry_run never reaches Execute: it changes no file of the
\* destination, no PlanItem becomes other than PENDING, and it ends after Plan with the
\* run PLANNED.
C31_DryRunStopsAfterPlan ==
  [][dry_run =>
       /\ pc' \notin {"exec", "attempt"}
       /\ disk' = disk
       /\ \A i \in DOMAIN plan_items' :
            plan_items'[i].status # "PENDING" =>
              (i \in DOMAIN plan_items /\ plan_items[i] = plan_items'[i])
       /\ pc = "planned" => (pc' = "idle" /\ run_status' = "PLANNED")]_vars

C31_Witness ==
  /\ dry_run /\ pc = "planned" /\ everVerified # {}
  /\ \A i \in DOMAIN plan_items : plan_items[i].status = "PENDING"

\* The rows of table t that belong to run run_id, with their ids.
RowsOf(t, run_id) == {<<i, t[i]>> : i \in {j \in DOMAIN t : t[j].run_id = run_id}}

\* The PlanItems of a run without their ids (build_plan deletes and re-inserts them).
ItemsOf(t, run_id) == {t[i] : i \in {j \in DOMAIN t : t[j].run_id = run_id}}

\* C32: every step of scan, hash or plan works on one run and leaves the FileRecords,
\* HashGroups and PlanItems of every other run as they were; in the plan it builds, a file
\* is a duplicate exactly when a file of the same run with a smaller file_id has its
\* fingerprint, and the group it refers to is the group of its own run and fingerprint.
C32_DedupScopedToRun ==
  [][\E r \in RunIds :
       /\ \A o \in RunIds \ {r} :
            /\ RowsOf(store'.files, o) = RowsOf(store.files, o)
            /\ RowsOf(store'.hash_groups, o) = RowsOf(store.hash_groups, o)
            /\ ItemsOf(store'.plan_items, o) = ItemsOf(store.plan_items, o)
       /\ store'.plan_items # store.plan_items =>
            \A it \in ItemsOf(store'.plan_items, r) :
              LET f == store'.files[it.file_id]
                  twins == {j \in DOMAIN store'.files :
                              /\ store'.files[j].run_id = r /\ j < it.file_id
                              /\ f.sha256 # NULL /\ store'.files[j].sha256 = f.sha256}
              IN /\ f.run_id = r
                 /\ it.action = IF twins = {} THEN "COPY" ELSE "COPY_TO_DUPLICATES"
                 /\ it.is_primary_in_group = (twins = {})
                 /\ it.duplicate_group_id # NULL =>
                      /\ store'.hash_groups[it.duplicate_group_id].run_id = r
                      /\ store'.hash_groups[it.duplicate_group_id].sha256 = f.sha256]_vars

\* A file of run 2 whose fingerprint is only known from run 1 is a COPY primary.
C32_Witness ==
  \E i, j \in DOMAIN store.plan_items :
    LET a == store.plan_items[i]
        b == store.plan_items[j]
    IN /\ a.run_id = 1 /\ b.run_id = 2
       /\ store.files[a.file_id].sha256 # NULL
       /\ store.files[a.file_id].sha256 = store.files[b.file_id].sha256
       /\ a.action = "COPY" /\ b.action = "COPY" /\ b.is_primary_in_group
       /\ \A k \in DOMAIN store.files :
            (store.files[k].run_id = 2 /\ k # b.file_id) =>
               store.files[k].sha256 # store.files[b.file_id].sha256

\* C33: no step of scan, hash, plan, execute or rollback changes or removes an ErrorRecord:
\* the records a step finds are, in place and unchanged, the first records after it; the
\* record of a failed copy is still there when a later execution has verified the item.
C33_ErrorsAppendOnly ==
  [][/\ Len(errors') >= Len(errors)
     /\ \A e \in DOMAIN errors : errors'[e] = errors[e]]_vars

C33_Witness ==
  \E i \in DOMAIN plan_items :
    /\ plan_items[i].status = "VERIFIED"
    /\ \E e \in DOMAIN errors : /\ errors[e].file_id = plan_items[i].file_id
                                /\ errors[e].phase \in {"COPY", "VERIFY"}

\* C34: the pass of the for loop for an item first writes COPYING and copies nothing in
\* that step; the destination tree changes only while the item is COPYING; a failed attempt
\* that is repeated leaves the row and done alone; the pass ends with one change from
\* COPYING to VERIFIED or FAILED, of this row only, and with it done goes up by one, so the
\* progress callback is called once for the item with the status already written; and the
\* pass does end.
C34_ItemLifecycle ==
  /\ [][/\ (pc = "exec" /\ pc' = "attempt") =>
             /\ plan_items'[items[idx].plan_item_id].status = "COPYING"
             /\ disk' = disk /\ done' = done
        /\ disk' # disk =>
             (pc = "attempt" /\ plan_items[items[idx].plan_item_id].status = "COPYING")
        /\ pc = "attempt" =>
             LET id == items[idx].plan_item_id
             IN \/ pc' = "attempt" /\ plan_items' = plan_items /\ done' = done
                \/ /\ pc' = "exec"
                   /\ plan_items[id].status = "COPYING"
                   /\ plan_items'[id].status \in {"VERIFIED", "FAILED"}
                   /\ \A j \in DOMAIN plan_items \ {id} : plan_items'[j] = plan_items[j]
                   /\ done' = done + 1
        /\ done' # done => (done' = 0 \/ (pc = "attempt" /\ done' = done + 1))
        /\ \A i \in DOMAIN plan_items :
             (i \in DOMAIN plan_items' /\ plan_items[i].status \in {"VERIFIED", "FAILED"}
              /\ pc \in {"exec", "attempt"} /\ pc' \in {"exec", "attempt"}) =>
                plan_items'[i].status = plan_items[i].status]_vars
  /\ [](pc = "attempt" => <>(pc = "exec"))

\* Both items of a selection are behind the loop, one VERIFIED and one FAILED.
C34_Witness ==
  /\ pc = "exec" /\ done = 2 /\ Len(items) = 2
  /\ \E i, j \in DOMAIN plan_items :
       plan_items[i].status = "VERIFIED" /\ plan_items[j].status = "FAILED"

\* C35: in a plan that was just built, the item of a file without sha256 is a COPY, is
\* primary, refers to no group and has the destination folder of its class and chosen
\* date, whatever the other files of the run hold.
C35_UnhashedIsUngroupedPrimary ==
  pc = "planned" =>
    \A i \in DOMAIN plan_items :
      LET row == files[plan_items[i].file_id]
      IN row.sha256 = NULL =>
           /\ plan_items[i].action = "COPY"
           /\ plan_items[i].is_primary_in_group
           /\ plan_items[i].duplicate_group_id = NULL
           /\ dirname(plan_items[i].dest_path) = <<"Photos", row.chosen_date[1], row.chosen_date>>

\* Two files hold the same bytes; one has its sha256 and its group, the other has none.
C35_Witness ==
  /\ pc = "planned"
  /\ \E i, j \in DOMAIN plan_items :
       LET f == plan_items[i].file_id
           g == plan_items[j].file_id
       IN /\ files[f].sha256 = NULL /\ files[g].sha256 # NULL
          /\ srcFiles[f].content = srcFiles[g].content
          /\ plan_items[i].action = "COPY" /\ plan_items[j].action = "COPY"
          /\ plan_items[j].duplicate_group_id # NULL

\* The folder segment of an OTHER file: its extension without the dot in capitals, NOEXT
\* when it has none.
TagOf(ext) == IF ext = "" THEN "NOEXT" ELSE IF ext = ".txt" THEN "TXT" ELSE "?"

ClassFolder(media_type) ==
  CASE media_type = "PHOTO" -> "Photos"
    [] media_type = "VIDEO" -> "Videos"
    [] media_type = "RAW" -> "RAW"
    [] OTHER -> "OtherByExt"

\* C36: the relative path of a COPY item is <Photos|Videos|RAW>/<year of the chosen
\* date>/<chosen date>/<name> or, for an OTHER file, OtherByExt/<tag>/<name>, the name being
\* the file's name with the item's collision suffix; the relative path of a
\* COPY_TO_DUPLICATES item is Duplicates/<run id>/<file name as in the source>, with
\* collision suffix 0.
C36_DestinationLayout ==
  \A i \in DOMAIN plan_items :
    LET it == plan_items[i]
        row == files[it.file_id]
        named == [row.filename EXCEPT !.n = it.collision_suffix]
    IN /\ it.action = "COPY" =>
            IF row.media_type = "OTHER"
              THEN it.dest_path = <<"OtherByExt", TagOf(row.filename.ext), named>>
              ELSE it.dest_path = <<ClassFolder(row.media_type), row.chosen_date[1],
                                    row.chosen_date, named>>
       /\ it.action = "COPY_TO_DUPLICATES" =>
            /\ it.dest_path = <<"Duplicates", RunId, srcFiles[it.file_id].name>>
            /\ it.collision_suffix = 0

\* a.txt is planned twice: the primary gets a suffix under OtherByExt/TXT, where a.txt
\* exists already, and the second file of the same bytes goes to Duplicates unsuffixed.
C36_Witness ==
  \E i, j \in DOMAIN plan_items :
    /\ plan_items[i].action = "COPY" /\ plan_items[i].collision_suffix = 1
    /\ plan_items[i].dest_path[1] = "OtherByExt"
    /\ plan_items[j].action = "COPY_TO_DUPLICATES"
    /\ plan_items[j].dest_path = <<"Duplicates", RunId, [base |-> "a", n |-> 0, ext |-> ".txt"]>>

\* C37: when the configuration of the run enables OTHER, the scan started for the run
\* gives a FileRecord to every OTHER file it reads without error that has the minimum
\* size and no excluded extension, whichever front end started it.
C37_OtherEnabledIsScanned ==
  [][(/\ IsWalk /\ ~scanning.stop
      /\ scanning.cfg.include_other
      /\ scanning'.cur.attr = "plain" /\ scanning'.cur.stat = "ok" /\ scanning'.cur.mtime = "ok"
      /\ classify_media(scanning'.cur.ext) = "OTHER"
      /\ scanning'.cur.ext \notin EXCLUDED_EXTS
      /\ scanning'.cur.size >= scanning.cfg.min_file_size)
       => scanning'.count = scanning.count + 1]_vars

\* C38 as stated: a rollback of a run that is ROLLED_BACK already changes neither the
\* destination tree nor the store.
C38_SecondRollbackChangesNothing ==
  [][(IsRollback /\ run_status = "ROLLED_BACK") =>
       (disk' = disk /\ errors' = errors /\ plan_items' = plan_items)]_vars

\* C38: a rollback removes only files at destination paths of VERIFIED items of the run,
\* which the run copied and verified itself; it leaves the source tree, the files, the
\* groups and every PlanItem as they are; and a rollback of a run that is ROLLED_BACK with
\* no ROLLBACK error logged changes nothing at all.
C38_RollbackOnlyOwnVerified ==
  [][IsRollback =>
       /\ DOMAIN disk \ DOMAIN disk' \subseteq
            {plan_items[i].dest_path : i \in VerifiedItems} \cap {v[2] : v \in everVerified}
       /\ \A p \in DOMAIN disk' : p \in DOMAIN disk /\ disk'[p] = disk[p]
       /\ plan_items' = plan_items /\ srcFiles' = srcFiles
       /\ files' = files /\ hash_groups' = hash_groups
       /\ (run_status = "ROLLED_BACK" /\ RollbackErrors(errors) = {}) =>
            (disk' = disk /\ errors' = errors /\ run_status' = run_status)]_vars

\* A rollback without failure has removed what the run verified, beside a file that a
\* FAILED item left at its destination: the rollback can be run again.
C38_Witness ==
  /\ pc = "completed" /\ run_status = "ROLLED_BACK" /\ RollbackErrors(errors) = {}
  /\ VerifiedItems # {}
  /\ \A i \in VerifiedItems : plan_items[i].dest_path \notin DOMAIN disk
  /\ \E j \in DOMAIN plan_items :
       plan_items[j].status = "FAILED" /\ plan_items[j].dest_path \in DOMAIN disk

DuplicateItems == {i \in DOMAIN plan_items : plan_items[i].action = "COPY_TO_DUPLICATES"}

RECURSIVE NewestOf(_, _)
NewestOf(S, n) == IF n = 0 \/ S = {} THEN {} ELSE {Max(S)} \cup NewestOf(S \ {Max(S)}, n - 1)

\* C40: a purge with --keep-last N selects none of the N most recently created runs among
\* the runs that match --status and no run that does not match it; it deletes the rows of
\* the selected runs only, and with --dry-run it deletes no row of any table.
C40_PurgeKeepsNewest ==
  [][store'.purge # store.purge =>
       LET a == store'.purge
           matching == {i \in LiveRuns(runs) : a.status = "" \/ runs[i].status = a.status}
       IN /\ a.to_purge \cap NewestOf(matching, a.keep_last) = {}
          /\ a.to_purge \subseteq matching
          /\ a.dry_run =>
               /\ runs' = runs
               /\ [store' EXCEPT !.purge = NoPurge] = [store EXCEPT !.purge = NoPurge]
          /\ ~a.dry_run => LiveRuns(runs') = LiveRuns(runs) \ a.to_purge]_vars

====
